---- MODULE Spec2Model ----
(***************************************************************************)
(* Model of the stratified-metrics pipeline of vivarium_gates_child_iv_iron *)
(*                                                                         *)
(*   constants/results.py                 column schema (RESULT_COLUMNS,   *)
(*                                        RESULTS_MAP)                     *)
(*   components/observers.py              ResultsStratifier and observers  *)
(*   results_processing/process_results.py  offline filtering              *)
(*                                                                         *)
(* Three state machines share the module; each leaves the variables of the *)
(* other two untouched:                                                    *)
(*   SpecSchema   the column schema functions applied to a measure name    *)
(*   Spec         the runtime stratifier (setup, time steps, metric reads) *)
(*   SpecFilter   run records loaded, then filtered against a keyspace     *)
(***************************************************************************)
EXTENDS Integers, Sequences, FiniteSets, TLC

VARIABLES
    \* ---- constants/results.py
    schema,        \* the module tables: COLUMN_TEMPLATES and TEMPLATE_FIELD_MAP
    kind,          \* the measure name the schema functions were last called with
    columns,       \* what RESULT_COLUMNS(kind) returned
    results_map,   \* what RESULTS_MAP(kind) returned
    idx,           \* index of the column last looked up in results_map (0: none)
    looked_up,     \* the rows of results_map found under that column
    \* ---- components/observers.py
    phase,                  \* "setup", "post_setup", "running", "crashed"
    stratification_levels,  \* ResultsStratifier.stratification_levels
    pipelines,              \* ResultsStratifier.pipelines
    columns_required,       \* the list setup hands to builder.population.get_view
    population_view,        \* the columns of ResultsStratifier.population_view
    stratification_groups,  \* ResultsStratifier.stratification_groups
    population,             \* the state table, one record per simulant
    step,                   \* time steps started so far
    pending,                \* time_step__prepare listeners still to run in this step
    reader,                 \* the observer method that called group last
    yielded,                \* what that call of group yielded
    raised,                 \* the exception the last call ended with, or "none"
    evaluated,              \* the refreshes and pipeline calls made since the step began
    \* ---- results_processing/process_results.py
    data,          \* the record table, one row per loaded run
    keyspace,      \* the keyspace the runs were launched with
    stage,         \* "idle", "read", "filtered", "refiltered", "aggregated"
    filtered,      \* the table filter_out_incomplete returned last
    aggregated,    \* the table aggregate_over_seed returned
    disaggregate_seeds,  \* the flag the measure tables are made with
    measure,       \* the measure get_measure_data was called with
    long,          \* what get_measure_data returned
    path,          \* the files read_data was called on, and its single_run flag
    loaded         \* what that call of read_data returned or raised

schemaVars == <<schema, kind, columns, results_map, idx, looked_up>>
stratVars  == <<phase, stratification_levels, pipelines, columns_required,
                population_view, stratification_groups, population, step, pending,
                reader, yielded, raised, evaluated>>
reshapeVars == <<disaggregate_seeds, measure, long>>
readVars   == <<path, loaded>>
filterVars == <<data, keyspace, stage, filtered, aggregated, reshapeVars, readVars>>
vars       == <<schemaVars, stratVars, filterVars>>

\* An attribute that may hold Python's None: None, or Some(value)
None == [is_none |-> TRUE, value |-> <<>>]
Some(v) == [is_none |-> FALSE, value |-> v]

(***************************************************************************)
(* Bounds of the model                                                     *)
(***************************************************************************)
\* number of years of results.YEARS kept (the table has 16)
MaxYears == 2
\* calls of setup_stratification during setup
MaxDims == 2
\* simulants in the state table (a scenario's population may be larger)
MaxPop == 2
\* time steps taken
MaxSteps == 2
\* rows of an output table read by read_data (Scenario B's table is larger)
MaxRows == 2

(***************************************************************************)
(* constants/models.py                                                     *)
(***************************************************************************)
\* data_keys.<CAUSE>.name; the two PEM names are the literal prefixes of their
\* state person time templates (results.py:41-46).
DIARRHEA_NAME     == "diarrheal_diseases"
LRI_NAME          == "lower_respiratory_infections"
MEASLES_NAME      == "measles"
MODERATE_PEM_NAME == "moderate_protein_energy_malnutrition"
SEVERE_PEM_NAME   == "severe_protein_energy_malnutrition"

\* __SISModel.SUSCEPTIBLE_STATE_NAME
SUSCEPTIBLE_STATE_NAME(model_name) == "susceptible_to_" \o model_name

\* __SISModel.STATES
SIS_STATES(model_name) == <<SUSCEPTIBLE_STATE_NAME(model_name), model_name>>

\* __SISModel.TRANSITIONS: TransitionString lower-cases '<from>_TO_<to>'; the
\* state names are lower case already, so only the separator changes.
SIS_TRANSITIONS(model_name) ==
    << SUSCEPTIBLE_STATE_NAME(model_name) \o "_to_" \o model_name,
       model_name \o "_to_" \o SUSCEPTIBLE_STATE_NAME(model_name) >>


(***************************************************************************)
(* constants/results.py: templates and value domains                       *)
(***************************************************************************)
\* A template is the sequence of its literal pieces and its {FIELD} placeholders.
Lit(s) == [lit |-> TRUE,  text |-> s]
Fld(f) == [lit |-> FALSE, text |-> f]

DEATH_COLUMN_TEMPLATE ==
    << Lit("death_due_to_"), Fld("CAUSE_OF_DEATH"), Lit("_year_"), Fld("YEAR"),
       Lit("_sex_"), Fld("SEX"), Lit("_age_"), Fld("AGE_GROUP") >>
YLLS_COLUMN_TEMPLATE ==
    << Lit("ylls_due_to_"), Fld("CAUSE_OF_DEATH"), Lit("_year_"), Fld("YEAR"),
       Lit("_sex_"), Fld("SEX"), Lit("_age_"), Fld("AGE_GROUP") >>
YLDS_COLUMN_TEMPLATE ==
    << Lit("ylds_due_to_"), Fld("CAUSE_OF_DISABILITY"), Lit("_year_"), Fld("YEAR"),
       Lit("_sex_"), Fld("SEX"), Lit("_age_"), Fld("AGE_GROUP") >>

\* '<prefix>_{<FIELD>}_<what>_year_{YEAR}_sex_{SEX}_age_{AGE_GROUP}': the shape of
\* the ten state person time and transition count templates of the cause models.
CauseTemplate(prefix, field, what) ==
    << Lit(prefix \o "_"), Fld(field), Lit("_" \o what \o "_year_"), Fld("YEAR"),
       Lit("_sex_"), Fld("SEX"), Lit("_age_"), Fld("AGE_GROUP") >>

DIARRHEA_STATE_PERSON_TIME_COLUMN_TEMPLATE ==
    CauseTemplate("diarrheal_diseases", "DIARRHEA_STATE", "person_time")
LRI_STATE_PERSON_TIME_COLUMN_TEMPLATE ==
    CauseTemplate("lower_respiratory_infections", "LRI_STATE", "person_time")
MEASLES_STATE_PERSON_TIME_COLUMN_TEMPLATE ==
    CauseTemplate("measles", "MEASLES_STATE", "person_time")
MODERATE_PEM_STATE_PERSON_TIME_COLUMN_TEMPLATE ==
    CauseTemplate("moderate_protein_energy_malnutrition", "MODERATE_PEM_STATE", "person_time")
SEVERE_PEM_STATE_PERSON_TIME_COLUMN_TEMPLATE ==
    CauseTemplate("severe_protein_energy_malnutrition", "SEVERE_PEM_STATE", "person_time")
DIARRHEA_TRANSITION_COUNT_COLUMN_TEMPLATE ==
    CauseTemplate("diarrheal_diseases", "DIARRHEA_TRANSITION", "event_count")
LRI_TRANSITION_COUNT_COLUMN_TEMPLATE ==
    CauseTemplate("lower_respiratory_infections", "LRI_TRANSITION", "event_count")
MEASLES_TRANSITION_COUNT_COLUMN_TEMPLATE ==
    CauseTemplate("measles", "MEASLES_TRANSITION", "event_count")
MODERATE_PEM_TRANSITION_COUNT_COLUMN_TEMPLATE ==
    CauseTemplate("moderate_protein_energy_malnutrition", "MODERATE_PEM_TRANSITION", "event_count")
SEVERE_PEM_TRANSITION_COUNT_COLUMN_TEMPLATE ==
    CauseTemplate("severe_protein_energy_malnutrition", "SEVERE_PEM_TRANSITION", "event_count")

\* 'child_<risk>_{CGF_RISK_STATE_NUMERIC}_person_time_year_{YEAR}_sex_{SEX}_age_
\* {AGE_GROUP}_maternal_supplementation_{SUPPLEMENTATION}_iv_iron_{IV_IRON}'
CgfTemplate(prefix) ==
    << Lit(prefix \o "_"), Fld("CGF_RISK_STATE_NUMERIC"), Lit("_person_time_year_"),
       Fld("YEAR"), Lit("_sex_"), Fld("SEX"), Lit("_age_"), Fld("AGE_GROUP"),
       Lit("_maternal_supplementation_"), Fld("SUPPLEMENTATION"),
       Lit("_iv_iron_"), Fld("IV_IRON") >>

STUNTING_STATE_PERSON_TIME_COLUMN_TEMPLATE == CgfTemplate("child_stunting")
WASTING_STATE_PERSON_TIME_COLUMN_TEMPLATE  == CgfTemplate("child_wasting")

\* '..._year_{YEAR}_sex_{SEX}_maternal_supplementation_{SUPPLEMENTATION}_iv_iron_
\* {IV_IRON}_bmi_anemia_{BMI_ANEMIA}': the tail of the three birth templates.
BirthTail(before_year) ==
    << Lit(before_year \o "year_"), Fld("YEAR"), Lit("_sex_"), Fld("SEX"),
       Lit("_maternal_supplementation_"), Fld("SUPPLEMENTATION"),
       Lit("_iv_iron_"), Fld("IV_IRON"), Lit("_bmi_anemia_"), Fld("BMI_ANEMIA") >>

LOW_BIRTH_WEIGHT_SHORT_GESTATION_SUB_RISK_SUM_COLUM_TEMPLATE ==
    << Fld("LBWSG_SUB_RISK") >> \o BirthTail("_sum_")
LIVE_BIRTHS_COLUMN_TEMPLATE       == BirthTail("live_births_")
LOW_WEIGHT_BIRTHS_COLUMN_TEMPLATE == BirthTail("low_weight_births_")

\* An ordered dict is the sequence of its items, in insertion order.
Item(k, v) == [key |-> k, value |-> v]

COLUMN_TEMPLATES ==
    << Item("deaths", DEATH_COLUMN_TEMPLATE),
       Item("ylls", YLLS_COLUMN_TEMPLATE),
       Item("ylds", YLDS_COLUMN_TEMPLATE),
       Item("diarrhea_state_person_time", DIARRHEA_STATE_PERSON_TIME_COLUMN_TEMPLATE),
       Item("measles_state_person_time", MEASLES_STATE_PERSON_TIME_COLUMN_TEMPLATE),
       Item("lri_state_person_time", LRI_STATE_PERSON_TIME_COLUMN_TEMPLATE),
       Item("moderate_pem_state_person_time", MODERATE_PEM_STATE_PERSON_TIME_COLUMN_TEMPLATE),
       Item("severe_pem_state_person_time", SEVERE_PEM_STATE_PERSON_TIME_COLUMN_TEMPLATE),
       Item("diarrhea_transition_count", DIARRHEA_TRANSITION_COUNT_COLUMN_TEMPLATE),
       Item("measles_transition_count", MEASLES_TRANSITION_COUNT_COLUMN_TEMPLATE),
       Item("lri_transition_count", LRI_TRANSITION_COUNT_COLUMN_TEMPLATE),
       Item("moderate_pem_transition_count", MODERATE_PEM_TRANSITION_COUNT_COLUMN_TEMPLATE),
       Item("severe_pem_transition_count", SEVERE_PEM_TRANSITION_COUNT_COLUMN_TEMPLATE),
       Item("stunting_state_person_time", STUNTING_STATE_PERSON_TIME_COLUMN_TEMPLATE),
       Item("wasting_state_person_time", WASTING_STATE_PERSON_TIME_COLUMN_TEMPLATE),
       Item("low_birth_weight_and_short_gestation_sum",
            LOW_BIRTH_WEIGHT_SHORT_GESTATION_SUB_RISK_SUM_COLUM_TEMPLATE),
       Item("live_births_count", LIVE_BIRTHS_COLUMN_TEMPLATE),
       Item("low_weight_births_count", LOW_WEIGHT_BIRTHS_COLUMN_TEMPLATE) >>

STANDARD_COLUMNS ==
    << Item("total_ylls", "years_of_life_lost"),
       Item("total_ylds", "years_lived_with_disability") >>

YEARS_START == 2025
YEARS_STOP  == 2041

SEXES == <<"male", "female">>
\* tuple(range(2025, 2041)), cut to its first MaxYears entries
YEARS ==
    [i \in 1..(IF MaxYears < YEARS_STOP - YEARS_START THEN MaxYears
                                                       ELSE YEARS_STOP - YEARS_START) |->
        YEARS_START + i - 1]
AGE_GROUPS_DuplicatedEntry ==
    <<"early_neonatal", "late_neonatal", "post_neonatal", "post_neonatal">>
AGE_GROUPS == <<"early_neonatal", "late_neonatal", "post_neonatal", "1_to_4">>
DICHOTOMOUS_RISK_STATES == <<"cat2", "cat1">>
CAUSES_OF_DEATH ==
    <<"other_causes", DIARRHEA_NAME, MEASLES_NAME, LRI_NAME, MODERATE_PEM_NAME,
      SEVERE_PEM_NAME>>
CAUSES_OF_DISABILITY ==
    <<DIARRHEA_NAME, MEASLES_NAME, LRI_NAME, MODERATE_PEM_NAME, SEVERE_PEM_NAME>>
\* The values of data_keys.CGFCategories; data_keys.py does not define the
\* enumeration and no template has a {CGF_RISK_STATE} placeholder, so the entry is
\* kept in the field map and its domain never enters a product.
CGF_RISK_STATES == <<"cgf_category">>
TETRACHOTOMTOUS_RISK_STATES == <<"cat1", "cat2", "cat3", "cat4">>
LBWSG_SUB_RISKS == <<"birth_weight", "gestational_age">>
MATERNAL_SUPPLEMENTATION_TYPES == <<"uncovered", "ifa", "mms", "bep">>
DICHOTOMOUS_COVERAGE_STATES == <<"uncovered", "covered">>

TEMPLATE_FIELD_MAP ==
    << Item("YEAR", YEARS),
       Item("SEX", SEXES),
       Item("AGE_GROUP", AGE_GROUPS),
       Item("CAUSE_OF_DEATH", CAUSES_OF_DEATH),
       Item("CAUSE_OF_DISABILITY", CAUSES_OF_DISABILITY),
       Item("DIARRHEA_STATE", SIS_STATES(DIARRHEA_NAME)),
       Item("LRI_STATE", SIS_STATES(LRI_NAME)),
       Item("MEASLES_STATE", SIS_STATES(MEASLES_NAME)),
       Item("MODERATE_PEM_STATE", SIS_STATES(MODERATE_PEM_NAME)),
       Item("SEVERE_PEM_STATE", SIS_STATES(SEVERE_PEM_NAME)),
       Item("DIARRHEA_TRANSITION", SIS_TRANSITIONS(DIARRHEA_NAME)),
       Item("LRI_TRANSITION", SIS_TRANSITIONS(LRI_NAME)),
       Item("MEASLES_TRANSITION", SIS_TRANSITIONS(MEASLES_NAME)),
       Item("MODERATE_PEM_TRANSITION", SIS_TRANSITIONS(MODERATE_PEM_NAME)),
       Item("SEVERE_PEM_TRANSITION", SIS_TRANSITIONS(SEVERE_PEM_NAME)),
       Item("CGF_RISK_STATE", CGF_RISK_STATES),
       Item("CGF_RISK_STATE_NUMERIC", TETRACHOTOMTOUS_RISK_STATES),
       Item("LBWSG_SUB_RISK", LBWSG_SUB_RISKS),
       Item("SUPPLEMENTATION", MATERNAL_SUPPLEMENTATION_TYPES),
       Item("IV_IRON", DICHOTOMOUS_COVERAGE_STATES),
       Item("BMI_ANEMIA", TETRACHOTOMTOUS_RISK_STATES) >>


\* The tables of Scenario C of the specification: one measure whose template is
\* 'deaths_{CAUSE}_{YEAR}', CAUSE in (a, b) and YEAR in (2020, 2021).
SCENARIO_C_TEMPLATES ==
    << Item("deaths", << Lit("deaths_"), Fld("CAUSE"), Lit("_"), Fld("YEAR") >>) >>
SCENARIO_C_FIELD_MAP ==
    << Item("CAUSE", <<"a", "b">>), Item("YEAR", <<2020, 2021>>) >>

\* The module tables the schema functions read.
Schemas == {"results", "scenario_c"}
ColumnTemplates  == IF schema = "results" THEN COLUMN_TEMPLATES ELSE SCENARIO_C_TEMPLATES
TemplateFieldMap == IF schema = "results" THEN TEMPLATE_FIELD_MAP ELSE SCENARIO_C_FIELD_MAP

(***************************************************************************)
(* Python helpers                                                          *)
(***************************************************************************)
\* dict.keys(), dict.values(), key in dict, dict[key]
Keys(d)   == [i \in 1..Len(d) |-> d[i].key]
Values(d) == [i \in 1..Len(d) |-> d[i].value]
HasKey(d, k) == \E i \in 1..Len(d) : d[i].key = k
Get(d, k) == d[CHOOSE i \in 1..Len(d) : d[i].key = k].value

\* str(value) as str.format renders the value of a field: the years are ints
\* (range), the values of every other field are strings.
Str(field, value) == IF field = "YEAR" THEN ToString(value) ELSE value

\* x.lower() for x a key of the field maps.
LowerFieldName(field) ==
    CASE field = "YEAR"                    -> "year"
      [] field = "SEX"                     -> "sex"
      [] field = "AGE_GROUP"               -> "age_group"
      [] field = "CAUSE_OF_DEATH"          -> "cause_of_death"
      [] field = "CAUSE_OF_DISABILITY"     -> "cause_of_disability"
      [] field = "DIARRHEA_STATE"          -> "diarrhea_state"
      [] field = "LRI_STATE"               -> "lri_state"
      [] field = "MEASLES_STATE"           -> "measles_state"
      [] field = "MODERATE_PEM_STATE"      -> "moderate_pem_state"
      [] field = "SEVERE_PEM_STATE"        -> "severe_pem_state"
      [] field = "DIARRHEA_TRANSITION"     -> "diarrhea_transition"
      [] field = "LRI_TRANSITION"          -> "lri_transition"
      [] field = "MEASLES_TRANSITION"      -> "measles_transition"
      [] field = "MODERATE_PEM_TRANSITION" -> "moderate_pem_transition"
      [] field = "SEVERE_PEM_TRANSITION"   -> "severe_pem_transition"
      [] field = "CGF_RISK_STATE"          -> "cgf_risk_state"
      [] field = "CGF_RISK_STATE_NUMERIC"  -> "cgf_risk_state_numeric"
      [] field = "LBWSG_SUB_RISK"          -> "lbwsg_sub_risk"
      [] field = "SUPPLEMENTATION"         -> "supplementation"
      [] field = "IV_IRON"                 -> "iv_iron"
      [] field = "BMI_ANEMIA"              -> "bmi_anemia"
      [] field = "CAUSE"                   -> "cause"

\* [x + (y,) for x in result for y in pool]: one round of itertools.product.
ExtendProduct_PoolMajor(result, pool) ==
    [i \in 1..(Len(result) * Len(pool)) |->
        Append(result[((i - 1) % Len(result)) + 1], pool[((i - 1) \div Len(result)) + 1])]
ExtendProduct(result, pool) ==
    [i \in 1..(Len(result) * Len(pool)) |->
        Append(result[((i - 1) \div Len(pool)) + 1], pool[((i - 1) % Len(pool)) + 1])]

\* itertools.product(*pools): result = [()], then one round per pool, left to right.
RECURSIVE ProductFrom(_, _)
ProductFrom(result, pools) ==
    IF pools = <<>> THEN result
    ELSE ProductFrom(ExtendProduct(result, Head(pools)), Tail(pools))
Product(pools) == ProductFrom(<< <<>> >>, pools)

(***************************************************************************)
(* constants/results.py: RESULT_COLUMNS and RESULTS_MAP                    *)
(***************************************************************************)
\* f'{{{field}}}' in template
FieldInTemplate(field, template) ==
    \E p \in 1..Len(template) : ~template[p].lit /\ template[p].text = field

\* {field: values for field, values in TEMPLATE_FIELD_MAP.items()
\*  if f'{{{field}}}' in template}
FilteredFieldMap(template) ==
    SelectSeq(TemplateFieldMap, LAMBDA item : FieldInTemplate(item.key, template))

\* template.format(**{field: value for field, value in zip(fields, value_group)})
RECURSIVE Format(_, _, _)
Format(template, fields, value_group) ==
    IF template = <<>> THEN ""
    ELSE LET part == Head(template)
             text == IF part.lit THEN part.text
                     ELSE Str(part.text,
                              value_group[CHOOSE i \in 1..Len(fields) :
                                              fields[i] = part.text])
         IN  text \o Format(Tail(template), fields, value_group)

\* A call returns [raised |-> "none", value |-> v] or ends with an exception.
Return(v) == [raised |-> "none", value |-> v]
Raise(e)  == [raised |-> e, value |-> <<>>]

\* The else branch of RESULT_COLUMNS: the columns of one declared measure.
ColumnsOfKind(k) ==
    LET template           == Get(ColumnTemplates, k)
        filtered_field_map == FilteredFieldMap(template)
        fields             == Keys(filtered_field_map)
        value_groups       == Product(Values(filtered_field_map))
    IN  [i \in 1..Len(value_groups) |-> Format(template, fields, value_groups[i])]

\* for k in COLUMN_TEMPLATES: columns += RESULT_COLUMNS(k)
RECURSIVE ColumnsOfKinds(_)
ColumnsOfKinds(ks) ==
    IF ks = <<>> THEN <<>> ELSE ColumnsOfKind(Head(ks)) \o ColumnsOfKinds(Tail(ks))

\* an undeclared kind answered with an empty list instead of an error
RESULT_COLUMNS_EmptyForUnknown(k) ==
    IF ~HasKey(ColumnTemplates, k) /\ k # "all"
    THEN Return(<<>>)
    ELSE IF k = "all"
         THEN Return(Values(STANDARD_COLUMNS) \o ColumnsOfKinds(Keys(ColumnTemplates)))
         ELSE Return(ColumnsOfKind(k))

RESULT_COLUMNS(k) ==
    IF ~HasKey(ColumnTemplates, k) /\ k # "all"
    THEN Raise("ValueError")
    ELSE IF k = "all"
         THEN Return(Values(STANDARD_COLUMNS) \o ColumnsOfKinds(Keys(ColumnTemplates)))
         ELSE Return(ColumnsOfKind(k))

\* The data frame RESULTS_MAP returns: its columns (the lower-cased fields, then
\* 'measure') and one row per value group, indexed by the column name the group
\* formats to.  Rows are kept in the order of the value groups: sort_index()
\* reorders the rows by key and changes no row.
RESULTS_MAP_KeysShifted(k) ==
    IF ~HasKey(ColumnTemplates, k)
    THEN Raise("ValueError")
    ELSE LET template           == Get(ColumnTemplates, k)
             filtered_field_map == FilteredFieldMap(template)
             fields             == Keys(filtered_field_map)
             value_groups       == Product(Values(filtered_field_map))
             n                  == Len(value_groups)
         IN  Return([fields |-> [i \in 1..Len(fields) |-> LowerFieldName(fields[i])],
                     rows   |-> [i \in 1..n |->
                                    [key     |-> Format(template, fields,
                                                        value_groups[(i % n) + 1]),
                                     values  |-> value_groups[i],
                                     measure |-> k]]])
RESULTS_MAP(k) ==
    IF ~HasKey(ColumnTemplates, k)
    THEN Raise("ValueError")
    ELSE LET template           == Get(ColumnTemplates, k)
             filtered_field_map == FilteredFieldMap(template)
             fields             == Keys(filtered_field_map)
             value_groups       == Product(Values(filtered_field_map))
         IN  Return([fields |-> [i \in 1..Len(fields) |-> LowerFieldName(fields[i])],
                     rows   |-> [i \in 1..Len(value_groups) |->
                                    [key     |-> Format(template, fields, value_groups[i]),
                                     values  |-> value_groups[i],
                                     measure |-> k]]])

\* map_df.loc[key]: the rows of the map indexed by key
Loc(map_df, key) == SelectSeq(map_df.rows, LAMBDA row : row.key = key)


(***************************************************************************)
(* The schema machine: get_measure_data asks for the columns of a measure  *)
(* and for its results map, then joins the columns against the map, one    *)
(* column after the other.                                                 *)
(***************************************************************************)
\* no measure asked for yet
NoKind == "(none)"

\* The names the functions are called with: the declared measures, 'all', and
\* 'population' (get_population_data), which COLUMN_TEMPLATES does not declare.
KindsAsked == {ColumnTemplates[i].key : i \in 1..Len(ColumnTemplates)}
                  \cup {"all", "population", "unknown_measure"}

InitStratIdle ==
    /\ phase = "idle"
    /\ stratification_levels = <<>>
    /\ pipelines = <<>>
    /\ columns_required = <<>>
    /\ population_view = None
    /\ stratification_groups = None
    /\ population = <<>>
    /\ step = 0
    /\ pending = <<>>
    /\ reader = "none"
    /\ yielded = <<>>
    /\ raised = "none"
    /\ evaluated = <<>>

InitFilterIdle ==
    /\ data = <<>>
    /\ keyspace = None
    /\ stage = "idle"
    /\ filtered = Return(<<>>)
    /\ aggregated = <<>>
    /\ disaggregate_seeds = FALSE
    /\ measure = NoKind
    /\ long = Return(<<>>)
    /\ path = <<>>
    /\ loaded = Return(<<>>)

InitSchemaIdle ==
    /\ schema = "results"
    /\ kind = NoKind
    /\ columns = Return(<<>>)
    /\ results_map = Return([fields |-> <<>>, rows |-> <<>>])
    /\ idx = 0
    /\ looked_up = <<>>

InitSchema ==
    /\ schema \in Schemas
    /\ kind = NoKind
    /\ columns = Return(<<>>)
    /\ results_map = Return([fields |-> <<>>, rows |-> <<>>])
    /\ idx = 0
    /\ looked_up = <<>>
    /\ InitStratIdle
    /\ InitFilterIdle

\* results.RESULT_COLUMNS(measure) and results.RESULTS_MAP(measure)
AskSchema(k) ==
    /\ kind = NoKind
    /\ kind' = k
    /\ columns' = RESULT_COLUMNS(k)
    /\ results_map' = RESULTS_MAP(k)
    /\ idx' = 0
    /\ looked_up' = <<>>
    /\ UNCHANGED <<schema, stratVars, filterVars>>

\* the join of the next column against the results map
JoinNextColumn ==
    /\ kind # NoKind
    /\ columns.raised = "none"
    /\ results_map.raised = "none"
    /\ idx < Len(columns.value)
    /\ idx' = idx + 1
    /\ looked_up' = Loc(results_map.value, columns.value[idx + 1])
    /\ UNCHANGED <<schema, kind, columns, results_map, stratVars, filterVars>>

NextSchema ==
    \/ \E k \in KindsAsked : AskSchema(k)
    \/ JoinNextColumn

SpecSchema == InitSchema /\ [][NextSchema]_vars

\* ---- what the schema claims speak of

\* the template of the measure asked for and the fields it references, in
\* TEMPLATE_FIELD_MAP order, with their value domains
AskedTemplate == Get(ColumnTemplates, kind)
AskedFields   ==
    SelectSeq(Keys(TemplateFieldMap),
              LAMBDA f : \E p \in 1..Len(AskedTemplate) :
                             AskedTemplate[p] = Fld(f))
AskedDomains  == [j \in 1..Len(AskedFields) |-> Get(TemplateFieldMap, AskedFields[j])]

RECURSIVE SizeFrom(_, _)
\* the number of value tuples of the fields after position j
SizeFrom(doms, j) == IF j >= Len(doms) THEN 1 ELSE Len(doms[j + 1]) * SizeFrom(doms, j + 1)

\* The i-th tuple (from 1) of the cartesian product of doms when the first
\* domain varies slowest: a mixed-radix reading of i - 1.
TupleAt(doms, i) ==
    [j \in 1..Len(doms) |->
        doms[j][(((i - 1) \div SizeFrom(doms, j)) % Len(doms[j])) + 1]]

Joining == kind # NoKind /\ idx > 0


(***************************************************************************)
(* Claims about the column schema (checked under SpecSchema)               *)
(***************************************************************************)

\* C1 -- Round trip: for every declared measure and every column c of
\* RESULT_COLUMNS(m), looking c up in RESULTS_MAP(m) yields exactly one row, and
\* that row holds the field-value tuple column c was generated from, under the
\* lower-cased names of the fields, with the measure's name.
C1_RoundTrip ==
    Joining =>
        /\ Len(looked_up) = 1
        /\ LET doms == AskedDomains IN looked_up[1].values = TupleAt(doms, idx)
        /\ looked_up[1].measure = kind
        /\ results_map.value.fields =
               [j \in 1..Len(AskedFields) |-> LowerFieldName(AskedFields[j])]

\* C1 witness: the last column of the largest measure has been looked up.
C1_Witness ==
    /\ Joining
    /\ schema = "results"
    /\ kind = "stunting_state_person_time"
    /\ idx = Len(columns.value)
    /\ Len(looked_up) = 1
    /\ looked_up[1].values[1] = YEARS[Len(YEARS)]

\* C2 -- Template instantiation is injective: the column just generated from a
\* value tuple differs from the column of every other tuple of the measure, so
\* RESULT_COLUMNS(m) holds no duplicate.
C2_Injective ==
    Joining =>
        \A j \in 1..Len(columns.value) :
            j # idx => columns.value[j] # columns.value[idx]

\* C2 witness: a measure with several hundred columns, two of which come from
\* tuples that differ in the age group alone.
C2_Witness ==
    /\ Joining
    /\ schema = "results"
    /\ kind = "deaths"
    /\ idx = 2 * Len(CAUSES_OF_DEATH)
    /\ Len(columns.value) = Len(YEARS) * Len(SEXES) * Len(AGE_GROUPS) * Len(CAUSES_OF_DEATH)
    /\ TupleAt(AskedDomains, idx)[3] # TupleAt(AskedDomains, 1)[3]

\* C3 -- RESULT_COLUMNS(m) is the cartesian product of the value domains of the
\* fields m's template references, one column per tuple, in the order the fields
\* are declared (the order of the field map), the earlier field varying slowest;
\* with the tables of Scenario C it is the four columns of (a,2020), (a,2021),
\* (b,2020), (b,2021), in that order.
C3_CartesianOrder ==
    /\ Joining =>
          LET doms   == AskedDomains
              fields == AskedFields
              tuple  == TupleAt(doms, idx)
          IN  /\ Len(columns.value) = SizeFrom(doms, 0)
              /\ columns.value[idx] = Format(AskedTemplate, fields, tuple)
    /\ (schema = "scenario_c" /\ kind = "deaths") =>
          columns.value = <<"deaths_a_2020", "deaths_a_2021",
                            "deaths_b_2020", "deaths_b_2021">>

\* C3 witness: the four columns of Scenario C have been generated and walked.
C3_Witness ==
    /\ schema = "scenario_c"
    /\ kind = "deaths"
    /\ idx = 4
    /\ Len(columns.value) = 4


(***************************************************************************)
(* components/observers.py: ResultsStratifier                              *)
(*                                                                         *)
(* Stratification names, category labels and state values are strings      *)
(* whose characters matter (join, lower): they are sequences of characters. *)
(* Source names are only dictionary keys and column names: plain strings.  *)
(***************************************************************************)
UpperCase == <<"A","B","C","D","E","F","G","H","I","J","K","L","M",
               "N","O","P","Q","R","S","T","U","V","W","X","Y","Z">>
LowerCase == <<"a","b","c","d","e","f","g","h","i","j","k","l","m",
               "n","o","p","q","r","s","t","u","v","w","x","y","z">>

\* the characters are left as they are
lower_Identity(str) == str

\* str.lower()
lower(str) ==
    [i \in 1..Len(str) |->
        IF \E u \in 1..Len(UpperCase) : UpperCase[u] = str[i]
        THEN LowerCase[CHOOSE u \in 1..Len(UpperCase) : UpperCase[u] = str[i]]
        ELSE str[i]]

\* '_'.join(parts)
RECURSIVE join(_)
join(parts) ==
    IF parts = <<>> THEN <<>>
    ELSE IF Len(parts) = 1 THEN parts[1]
    ELSE parts[1] \o <<"_">> \o join(Tail(parts))

\* d[k] = v on an ordered dict: a present key keeps its place
DictSet(d, k, v) ==
    IF HasKey(d, k)
    THEN [i \in 1..Len(d) |-> IF d[i].key = k THEN Item(k, v) ELSE d[i]]
    ELSE Append(d, Item(k, v))

\* get_state_function(state): the closure over source_name and state
get_state_function(source_name, state) == [source_name |-> source_name, state |-> state]

\* A state a category stands for: one value, or a list of values.
One(value)     == [is_list |-> FALSE, of |-> <<value>>]
AnyOf(values)  == [is_list |-> TRUE,  of |-> values]

\* if type(categories) != dict: categories = {category: category for category in categories}
\* A dict argument is [is_dict |-> TRUE, items |-> its items]; any other iterable
\* is [is_dict |-> FALSE, items |-> its elements].
RECURSIVE DictOf(_)
DictOf(elements) ==
    IF elements = <<>> THEN <<>>
    ELSE LET last == elements[Len(elements)]
         IN  DictSet(DictOf(SubSeq(elements, 1, Len(elements) - 1)), last, One(last))
AsDict(categories) ==
    IF categories.is_dict THEN categories.items ELSE DictOf(categories.items)

\* data_keys.WASTING.name
WASTING_NAME == "child_wasting"

\* The columns of the simulation's state table.
StateColumns == {"tracked", "sex", WASTING_NAME}

\* builder.value.get_value(source_name): the pipeline of that name.  A pipeline
\* evaluates, for a simulant, to the attribute of the simulant it exposes.
PipelineAttribute(source_name) ==
    CASE source_name = "sex.value"              -> "sex"
      [] source_name = "child_wasting.exposure" -> WASTING_NAME

\* pd.concat([population_view.get(index)] + [pipeline(index) ...], axis=1):
\* the names of the columns of pop
PopColumns == {population_view.value[i] : i \in 1..Len(population_view.value)}
                  \cup {pipelines[i].key : i \in 1..Len(pipelines)}

\* pop[source_name] for the simulant sim
Cell(sim, source_name) ==
    IF \E i \in 1..Len(pipelines) : pipelines[i].key = source_name
    THEN sim[PipelineAttribute(source_name)]
    ELSE sim[source_name]

\* lambda pop: (pop[source_name] == state if not isinstance(state, List)
\*              else pop[source_name].isin(state)), for one row of pop
Matches(predicate, sim) ==
    LET cell == Cell(sim, predicate.source_name)
    IN  IF predicate.state.is_list
        THEN \E v \in 1..Len(predicate.state.of) : predicate.state.of[v] = cell
        ELSE cell = predicate.state.of[1]

\* no combination at all when no level is defined
get_all_stratifications_NoneWhenUnstratified ==
    LET groups == [m \in 1..Len(stratification_levels) |->
                      [c \in 1..Len(stratification_levels[m].value) |->
                          [metric   |-> stratification_levels[m].key,
                           category |-> stratification_levels[m].value[c].key]]]
    IN  IF groups = <<>> THEN <<>> ELSE Product(groups)

\* ResultsStratifier.get_all_stratifications
get_all_stratifications ==
    LET groups == [m \in 1..Len(stratification_levels) |->
                      [c \in 1..Len(stratification_levels[m].value) |->
                          [metric   |-> stratification_levels[m].key,
                           category |-> stratification_levels[m].value[c].key]]]
    IN  Product(groups)

\* '_'.join([f'{metric["metric"]}_{metric["category"]}' for metric in stratification])
JoinedLabel(stratification) ==
    join([m \in 1..Len(stratification) |->
             stratification[m].metric \o <<"_">> \o stratification[m].category])

\* ResultsStratifier.get_stratification_key
get_stratification_key(stratification) ==
    IF stratification = <<>> THEN <<>> ELSE JoinedLabel(stratification)

\* stratification_group_name of get_stratification_groups
stratification_group_name(stratification) == lower(JoinedLabel(stratification))

\* self.stratification_levels[metric['metric']][metric['category']]
Predicate(metric) == Get(Get(stratification_levels, metric.metric), metric.category)

\* mask, for one row of pop: every predicate of the stratification matches
Mask(stratification, sim) ==
    \A m \in 1..Len(stratification) : Matches(Predicate(stratification[m]), sim)

\* the first match is kept instead of the last
RECURSIVE AssignRow_FirstMatch(_, _, _)
AssignRow_FirstMatch(group, stratifications, sim) ==
    IF stratifications = <<>> THEN group
    ELSE IF Mask(Head(stratifications), sim)
         THEN stratification_group_name(Head(stratifications))
         ELSE AssignRow_FirstMatch(group, Tail(stratifications), sim)

\* the loop of get_stratification_groups over the stratifications, for one row:
\* stratification_groups.loc[mask] = stratification_group_name
RECURSIVE AssignRow(_, _, _)
AssignRow(group, stratifications, sim) ==
    IF stratifications = <<>> THEN group
    ELSE AssignRow(IF Mask(Head(stratifications), sim)
                   THEN stratification_group_name(Head(stratifications))
                   ELSE group,
                   Tail(stratifications), sim)

\* [pd.Series(pipeline(index), name=name) for name, pipeline in
\*  self.pipelines.items()]: the pipelines called, in their order
pop_list_pipelines_PerPredicate ==
    [i \in 1..Len(pipelines) |-> pipelines[i].key]
        \o [i \in 1..Len(pipelines) |-> pipelines[i].key]
pop_list_pipelines == [i \in 1..Len(pipelines) |-> pipelines[i].key]

\* ResultsStratifier.get_stratification_groups(index), index the whole state
\* table.  The first predicate evaluated on a source that is no column of pop
\* ends the call with a KeyError.
get_stratification_groups ==
    LET all_stratifications == get_all_stratifications
    IN  IF \E s \in 1..Len(all_stratifications) :
               \E m \in 1..Len(all_stratifications[s]) :
                   Predicate(all_stratifications[s][m]).source_name \notin PopColumns
        THEN Raise("KeyError")
        ELSE Return([i \in 1..Len(population) |->
                        AssignRow(<<>>, all_stratifications, population[i])])

\* ResultsStratifier.group(pop), pop given by its index (a sequence of simulants'
\* positions in the state table)
group(pop_index) ==
    IF stratification_groups = None
    THEN Raise("AttributeError")
    ELSE LET cached == stratification_groups.value
             index == SelectSeq(pop_index, LAMBDA i : i <= Len(cached))
             stratifications == get_all_stratifications
         IN  Return([s \in 1..Len(stratifications) |->
                        LET stratification_key ==
                                get_stratification_key(stratifications[s])
                        IN  [labels       |-> <<stratification_key>>,
                             pop_in_group |->
                                 IF index = <<>> THEN index
                                 ELSE SelectSeq(index,
                                          LAMBDA i : cached[i] = stratification_key)]])

\* ResultsStratifier.update_labels, for one column name k of measure_data
update_labels(k, labels) ==
    LET stratification_label == IF labels[1] # <<>> THEN <<"_">> \o labels[1] ELSE <<>>
    IN  k \o stratification_label


(***************************************************************************)
(* The stratifier machine: setup, initial population, time steps with the  *)
(* time_step__prepare listeners in priority order, metric reads            *)
(***************************************************************************)
\* the strings of the stratification inputs, character by character
sex     == <<"s","e","x">>
male    == <<"m","a","l","e">>
female  == <<"f","e","m","a","l","e">>
wasting == <<"w","a","s","t","i","n","g">>
Acute   == <<"A","c","u","t","e">>
severe  == <<"s","e","v","e","r","e">>
cat1    == <<"c","a","t","1">>
cat2    == <<"c","a","t","2">>
cat3    == <<"c","a","t","3">>

Registration(source_name, is_pipeline, stratification_name, categories) ==
    [source_name |-> source_name, is_pipeline |-> is_pipeline,
     stratification_name |-> stratification_name, categories |-> categories]
Iterable(elements) == [is_dict |-> FALSE, items |-> elements]
Dict(items)        == [is_dict |-> TRUE,  items |-> items]

\* The calls of setup_stratification a model configuration makes.
RegistrationInputs ==
    { \* sex, read from a pipeline: the dimension of Scenario A
      Registration("sex.value", TRUE, sex, Iterable(<<male, female>>)),
      \* sex, read from the state table
      Registration("sex", FALSE, sex, Iterable(<<male, female>>)),
      \* wasting, read from the state table: overlapping categories, one with
      \* an upper-case letter, and cat3 in none of them
      Registration(WASTING_NAME, FALSE, wasting,
                   Dict(<<Item(Acute, AnyOf(<<cat1, cat2>>)), Item(severe, One(cat1))>>)),
      \* wasting, read from the exposure pipeline, every state its own category
      Registration("child_wasting.exposure", TRUE, wasting, Iterable(<<cat1, cat2, cat3>>)),
      \* a dimension without categories
      Registration("sex.value", TRUE, sex, Iterable(<<>>)),
      \* a second dimension without categories
      Registration("child_wasting.exposure", TRUE, wasting, Iterable(<<>>)) }

\* The rows a state table is made of: both sexes, and a wasting state in both
\* categories of the overlapping dimension (cat1), in one (cat2), in none (cat3).
Simulants ==
    { [sex |-> male,   child_wasting |-> cat1], [sex |-> female, child_wasting |-> cat1],
      [sex |-> female, child_wasting |-> cat2], [sex |-> male,   child_wasting |-> cat3] }

\* Scenario A: four rows, two male and two female
ScenarioAPopulation ==
    << [sex |-> male,   child_wasting |-> cat1], [sex |-> male,   child_wasting |-> cat2],
       [sex |-> female, child_wasting |-> cat1], [sex |-> female, child_wasting |-> cat3] >>

InitialPopulations ==
    UNION {[1..n -> Simulants] : n \in 0..MaxPop} \cup {ScenarioAPopulation}

\* The listeners of time_step__prepare with their priorities: the stratifier
\* registers with priority 0, the observer with the event manager's default.
DEFAULT_PRIORITY    == 5
STRATIFIER_PRIORITY == 0
Listeners ==
    { [name |-> "ResultsStratifier.on_timestep_prepare", priority |-> STRATIFIER_PRIORITY],
      [name |-> "DisabilityObserver.on_time_step_prepare", priority |-> DEFAULT_PRIORITY] }

\* the listeners in the order the event manager calls them: by priority 0..9
RECURSIVE ListenersFrom(_)
ListenersFrom(priority) ==
    IF priority > 9 THEN <<>>
    ELSE (IF \E l \in Listeners : l.priority = priority
          THEN << (CHOOSE l \in Listeners : l.priority = priority).name >>
          ELSE <<>>) \o ListenersFrom(priority + 1)

Init ==
    /\ phase = "setup"
    /\ stratification_levels = <<>>
    /\ pipelines = <<>>
    /\ columns_required = <<"tracked">>
    /\ population_view = None
    /\ stratification_groups = None
    /\ population = <<>>
    /\ step = 0
    /\ pending = <<>>
    /\ reader = "none"
    /\ yielded = <<>>
    /\ raised = "none"
    /\ evaluated = <<>>
    /\ InitSchemaIdle
    /\ InitFilterIdle

\* setup_stratification(source_name, is_pipeline, stratification_name, categories)
setup_stratification(r) ==
    /\ phase = "setup"
    /\ (Len(columns_required) - 1) + Len(pipelines) < MaxDims
    /\ LET categories == AsDict(r.categories)
       IN  stratification_levels' =
               DictSet(stratification_levels, r.stratification_name,
                       [c \in 1..Len(categories) |->
                           Item(categories[c].key,
                                get_state_function(r.source_name, categories[c].value))])
    /\ IF r.is_pipeline
       THEN /\ pipelines' = DictSet(pipelines, r.source_name, r.source_name)
            /\ UNCHANGED columns_required
       ELSE /\ columns_required' = Append(columns_required, WASTING_NAME)
            /\ UNCHANGED pipelines
    /\ UNCHANGED <<phase, population_view, stratification_groups, population, step,
                   pending, reader, yielded, raised, evaluated, schemaVars, filterVars>>

\* the end of ResultsStratifier.setup: the view, the empty cache, the listener
setup ==
    /\ phase = "setup"
    /\ phase' = "post_setup"
    /\ population_view' = Some(columns_required)
    /\ stratification_groups' = None
    /\ UNCHANGED <<stratification_levels, pipelines, columns_required, population, step,
                   pending, reader, yielded, raised, evaluated, schemaVars, filterVars>>

\* the simulation creates its initial population
InitializeSimulants(pop) ==
    /\ phase = "post_setup"
    /\ phase' = "running"
    /\ population' = pop
    /\ UNCHANGED <<stratification_levels, pipelines, columns_required, population_view,
                   stratification_groups, step, pending, reader, yielded, raised,
                   evaluated, schemaVars, filterVars>>

\* the simulation emits time_step__prepare
EmitTimeStepPrepare ==
    /\ phase = "running"
    /\ pending = <<>>
    /\ step < MaxSteps
    /\ step' = step + 1
    /\ pending' = ListenersFrom(0)
    /\ evaluated' = <<>>
    /\ UNCHANGED <<phase, stratification_levels, pipelines, columns_required,
                   population_view, stratification_groups, population, reader, yielded,
                   raised, schemaVars, filterVars>>

\* ResultsStratifier.on_timestep_prepare
on_timestep_prepare ==
    /\ phase = "running"
    /\ pending # <<>>
    /\ Head(pending) = "ResultsStratifier.on_timestep_prepare"
    /\ evaluated' = evaluated \o <<"get_stratification_groups">> \o pop_list_pipelines
    /\ LET result == get_stratification_groups
       IN  IF result.raised = "none"
           THEN /\ stratification_groups' = Some(result.value)
                /\ pending' = Tail(pending)
                /\ raised' = "none"
                /\ UNCHANGED phase
           ELSE /\ raised' = result.raised
                /\ phase' = "crashed"
                /\ pending' = <<>>
                /\ UNCHANGED stratification_groups
    /\ UNCHANGED <<stratification_levels, pipelines, columns_required, population_view,
                   population, step, reader, yielded, schemaVars, filterVars>>

\* an observer method asks the stratifier for the subgroups of pop
CallGroup(who, pop_index) ==
    LET result == group(pop_index)
    IN  /\ reader' = who
        /\ raised' = result.raised
        /\ yielded' = result.value
        /\ phase' = IF result.raised = "none" THEN phase ELSE "crashed"

\* DisabilityObserver.on_time_step_prepare -> update_metrics; every simulant is
\* tracked and alive
on_time_step_prepare ==
    /\ phase = "running"
    /\ pending # <<>>
    /\ Head(pending) = "DisabilityObserver.on_time_step_prepare"
    /\ CallGroup("DisabilityObserver.update_metrics", [i \in 1..Len(population) |-> i])
    /\ pending' = IF phase' = "crashed" THEN <<>> ELSE Tail(pending)
    /\ UNCHANGED <<stratification_levels, pipelines, columns_required, population_view,
                   stratification_groups, population, step, evaluated, schemaVars, filterVars>>

\* MortalityObserver.metrics: the metrics pipeline is read, between events, at any
\* time after setup
metrics ==
    /\ phase \in {"post_setup", "running"}
    /\ pending = <<>>
    /\ CallGroup("MortalityObserver.metrics", [i \in 1..Len(population) |-> i])
    /\ UNCHANGED <<stratification_levels, pipelines, columns_required, population_view,
                   stratification_groups, population, step, pending, evaluated, schemaVars,
                   filterVars>>

\* a simulant is born during a time step
AddSimulant(sim) ==
    /\ phase = "running"
    /\ pending = <<>>
    /\ step >= 1
    /\ Len(population) < MaxPop
    /\ population' = Append(population, sim)
    /\ UNCHANGED <<phase, stratification_levels, pipelines, columns_required,
                   population_view, stratification_groups, step, pending, reader, yielded,
                   raised, evaluated, schemaVars, filterVars>>

Next ==
    \/ \E r \in RegistrationInputs : setup_stratification(r)
    \/ setup
    \/ \E pop \in InitialPopulations : InitializeSimulants(pop)
    \/ EmitTimeStepPrepare
    \/ on_timestep_prepare
    \/ on_time_step_prepare
    \/ metrics
    \/ \E sim \in Simulants : AddSimulant(sim)

Spec == Init /\ [][Next]_vars


(***************************************************************************)
(* Claims about the stratifier (checked under Spec)                        *)
(***************************************************************************)
\* the cache holds an assignment
Cached == ~stratification_groups.is_none
\* the simulants the cached assignment covers
CachedIndex == 1..Len(stratification_groups.value)
\* the dimensions, by position of registration
Dimensions == 1..Len(stratification_levels)
\* the positions, in declared order, of the categories of dimension m whose
\* predicate matches the simulant
MatchingCategories(m, sim) ==
    {c \in 1..Len(stratification_levels[m].value) :
        Matches(stratification_levels[m].value[c].value, sim)}
Max(S) == CHOOSE x \in S : \A y \in S : y <= x
Min(S) == CHOOSE x \in S : \A y \in S : x <= y
\* some category of every dimension matches the simulant
MatchedEverywhere(sim) == \A m \in Dimensions : MatchingCategories(m, sim) # {}
\* '<dimension>_<category>' for category c of dimension m
Part(m, c) ==
    stratification_levels[m].key \o <<"_">> \o stratification_levels[m].value[c].key

\* key is label with every upper-case letter replaced by its lower-case letter
\* and every other character kept
LowerCased(key, label) ==
    /\ Len(key) = Len(label)
    /\ \A i \in 1..Len(label) :
           \/ \E u \in 1..Len(UpperCase) : UpperCase[u] = label[i] /\ key[i] = LowerCase[u]
           \/ /\ \A u \in 1..Len(UpperCase) : UpperCase[u] # label[i]
              /\ key[i] = label[i]

\* C4 -- Totality and uniqueness: the cached assignment gives every simulant of
\* the index one composite key, and that key is the (lower-cased) key of one of
\* the combinations of get_all_stratifications, also for a simulant that no
\* category of some dimension matches.
C4_EveryoneHasAValidKey ==
    Cached =>
        \A i \in CachedIndex :
            \E s \in 1..Len(get_all_stratifications) :
                stratification_groups.value[i] =
                    stratification_group_name(get_all_stratifications[s])

\* C5 as claimed -- when two categories of one dimension both match a simulant,
\* its key is the key of a combination that holds, for that dimension, the
\* EARLIER-declared of the matching categories.
C5_FirstMatchWins ==
    Cached =>
        \A i \in CachedIndex : \A m \in Dimensions :
            (/\ MatchedEverywhere(population[i])
             /\ Cardinality(MatchingCategories(m, population[i])) >= 2) =>
                \E s \in 1..Len(get_all_stratifications) :
                    /\ stratification_groups.value[i] =
                           stratification_group_name(get_all_stratifications[s])
                    /\ get_all_stratifications[s][m].category =
                           stratification_levels[m].value[
                               Min(MatchingCategories(m, population[i]))].key

\* C5 as amended -- when two categories of one dimension both match a simulant,
\* its key is the key of a combination that holds, for that dimension, the
\* LAST-declared of the matching categories: every later match overwrites the
\* earlier one.
C5_LastMatchWins ==
    Cached =>
        \A i \in CachedIndex : \A m \in Dimensions :
            (/\ MatchedEverywhere(population[i])
             /\ Cardinality(MatchingCategories(m, population[i])) >= 2) =>
                \E s \in 1..Len(get_all_stratifications) :
                    /\ stratification_groups.value[i] =
                           stratification_group_name(get_all_stratifications[s])
                    /\ get_all_stratifications[s][m].category =
                           stratification_levels[m].value[
                               Max(MatchingCategories(m, population[i]))].key

\* C5 witness: an assignment is cached for a simulant that two categories of
\* the wasting dimension match, beside a second dimension.
C5_Witness ==
    /\ Cached
    /\ Len(stratification_levels) = 2
    /\ \E i \in CachedIndex : \E m \in Dimensions :
           /\ MatchedEverywhere(population[i])
           /\ Cardinality(MatchingCategories(m, population[i])) = 2
           /\ stratification_groups.value[i] # <<>>

\* C6 -- The composite key of a simulant is the '<dimension>_<category>' parts
\* of its winning categories, one per dimension, joined with '_' in the order
\* the dimensions were registered, lower-cased; with the one dimension sex over
\* male and female and the four rows of Scenario A, the male rows get 'sex_male'
\* and the female rows 'sex_female'.
C6_CompositeKey ==
    Cached =>
        /\ \A i \in CachedIndex :
               MatchedEverywhere(population[i]) =>
                   LowerCased(stratification_groups.value[i],
                              join([m \in Dimensions |->
                                       Part(m, Max(MatchingCategories(m, population[i])))]))
        /\ (/\ Len(stratification_levels) = 1
            /\ stratification_levels[1].key = sex
            /\ Keys(stratification_levels[1].value) = <<male, female>>
            /\ population = ScenarioAPopulation) =>
               stratification_groups.value =
                   << <<"s","e","x","_","m","a","l","e">>,
                      <<"s","e","x","_","m","a","l","e">>,
                      <<"s","e","x","_","f","e","m","a","l","e">>,
                      <<"s","e","x","_","f","e","m","a","l","e">> >>

\* C6 witness: Scenario A has been assigned, and so has a population under two
\* dimensions, one of them with a label that has an upper-case letter.
C6_Witness ==
    /\ Cached
    /\ \/ /\ Len(stratification_levels) = 1
          /\ stratification_levels[1].key = sex
          /\ Keys(stratification_levels[1].value) = <<male, female>>
          /\ population = ScenarioAPopulation
          /\ Len(stratification_groups.value) = 4
       \/ /\ Len(stratification_levels) = 2
          /\ \E i \in CachedIndex :
                 /\ MatchedEverywhere(population[i])
                 /\ stratification_groups.value[i] # <<>>
                 /\ \E m \in Dimensions :
                        ~LowerCased(Part(m, Max(MatchingCategories(m, population[i]))),
                                    Part(m, Max(MatchingCategories(m, population[i]))))

\* C7 -- Intra-step ordering: when an observer's listener of a step runs, the
\* stratifier's on_timestep_prepare of that step has run and stored its
\* assignment; and group is never evaluated while the cache is still None (a
\* call of group on the empty cache ends with an AttributeError).
C7_CachedBeforeAnyRead ==
    /\ (pending # <<>> /\ Head(pending) = "DisabilityObserver.on_time_step_prepare") =>
           Cached
    /\ raised # "AttributeError"

\* C8 -- The label the stratifier caches for a combination of categories is,
\* character for character, the label group yields for that combination and
\* update_labels appends to a column name.
C8_SameLabelVocabulary ==
    (Cached /\ reader # "none" /\ raised = "none") =>
        \A s \in 1..Len(get_all_stratifications) :
            LET cached_label == stratification_group_name(get_all_stratifications[s])
            IN  /\ yielded[s].labels[1] = cached_label
                /\ update_labels(<<"d">>, yielded[s].labels) =
                       IF cached_label = <<>> THEN <<"d">>
                       ELSE <<"d", "_">> \o cached_label


(***************************************************************************)
(* results_processing/process_results.py: reading and completion filter    *)
(***************************************************************************)
\* one row of the output table after read_data renamed its columns:
\* input_draw, random_seed, scenario and one count column
Row(draw, seed, scenario_name, count) ==
    [input_draw |-> draw, random_seed |-> seed, scenario |-> scenario_name,
     deaths |-> count]

\* a keyspace.yaml: the lists of draws, seeds and scenarios that were launched
Keyspace(draws, seeds, scenario_names) ==
    [input_draw |-> draws, random_seed |-> seeds, scenario |-> scenario_names]

BASELINE == "baseline"
INTERVENTION == "intervention"

\* the keyspace read_data builds for a single run
SingleRunKeyspace == Keyspace(<<0>>, <<0>>, <<BASELINE>>)

\* the keyspace.yaml files read: Scenario B's, one that lists the draws in the
\* other order and one seed only, one of a single draw and scenario, and one
\* whose list of draws is empty
ScenarioBKeyspace == Keyspace(<<0, 1>>, <<10, 20>>, <<BASELINE, INTERVENTION>>)
KeyspaceFiles ==
    {ScenarioBKeyspace,
     Keyspace(<<1, 0>>, <<10>>, <<BASELINE, INTERVENTION>>),
     Keyspace(<<0>>, <<10, 20>>, <<BASELINE>>),
     Keyspace(<<>>, <<10>>, <<BASELINE>>)}

\* the output table of Scenario B: draw 0's seed 20 is missing from intervention
ScenarioBData ==
    <<Row(0, 10, BASELINE, 1), Row(0, 10, INTERVENTION, 1), Row(0, 20, BASELINE, 2),
      Row(1, 10, BASELINE, 1), Row(1, 10, INTERVENTION, 2),
      Row(1, 20, BASELINE, 1), Row(1, 20, INTERVENTION, 1)>>

\* an output table in which draw 0 has a baseline run only and draw 1 is complete
OneDrawIncompleteData ==
    <<Row(0, 10, BASELINE, 1), Row(1, 10, BASELINE, 1), Row(1, 10, INTERVENTION, 2)>>

\* the rows an output.hdf may hold
OutputRows ==
    {Row(d, s, sc, c) : d \in {0, 1}, s \in {10, 20},
                        sc \in {BASELINE, INTERVENTION}, c \in {1, 2}}

\* the output.hdf files read: every table of at most MaxRows rows, and Scenario B's
OutputFiles ==
    UNION {[1..n -> OutputRows] : n \in 0..MaxRows}
        \cup {ScenarioBData, OneDrawIncompleteData}

\* Series.unique() / set(list): the values of a sequence
SetOf(seq) == {seq[i] : i \in 1..Len(seq)}

\* draw_data without the filter on the draw
DrawData_EveryDraw(table, draw) == table

\* data.loc[data[results.INPUT_DRAW_COLUMN] == draw]
DrawData(table, draw) == SelectSeq(table, LAMBDA row : row.input_draw = draw)

\* draw_data.loc[data[SCENARIO_COLUMN] == scenario, RANDOM_SEED_COLUMN].unique()
SeedsInData(draw_data, scenario_name) ==
    {draw_data[i].random_seed :
        i \in {j \in 1..Len(draw_data) : draw_data[j].scenario = scenario_name}}

\* the first scenario of the keyspace alone decides
CompleteSeeds_FirstScenarioOnly(random_seeds, draw_data, scenario_names) ==
    IF scenario_names = <<>> THEN random_seeds
    ELSE random_seeds \cap SeedsInData(draw_data, Head(scenario_names))

\* the loop over keyspace[OUTPUT_SCENARIO_COLUMN]:
\* random_seeds = random_seeds.intersection(seeds_in_data)
RECURSIVE CompleteSeeds(_, _, _)
CompleteSeeds(random_seeds, draw_data, scenario_names) ==
    IF scenario_names = <<>> THEN random_seeds
    ELSE CompleteSeeds(random_seeds \cap SeedsInData(draw_data, Head(scenario_names)),
                       draw_data, Tail(scenario_names))

\* the body of the loop over the draws: the rows of the draw whose seed is
\* .isin(random_seeds)
FilterDraw(table, ks, draw) ==
    LET draw_data == DrawData(table, draw)
        random_seeds == CompleteSeeds(SetOf(ks.random_seed), draw_data, ks.scenario)
    IN  SelectSeq(draw_data, LAMBDA row : row.random_seed \in random_seeds)

\* pd.concat(output, ignore_index=True) of the tables of draws[from..]
RECURSIVE Concat(_, _, _)
Concat(table, ks, from) ==
    IF from > Len(ks.input_draw) THEN <<>>
    ELSE FilterDraw(table, ks, ks.input_draw[from]) \o Concat(table, ks, from + 1)

\* a draw that keeps no row makes the call fail
filter_out_incomplete_EmptyDrawFails(table, ks) ==
    IF \/ ks.input_draw = <<>>
       \/ \E d \in 1..Len(ks.input_draw) : FilterDraw(table, ks, ks.input_draw[d]) = <<>>
    THEN Raise("ValueError")
    ELSE Return(Concat(table, ks, 1))

\* filter_out_incomplete(data, keyspace); a list the keyspace does not hold
\* raises KeyError where it is first read, pd.concat of an empty list raises
\* ValueError
filter_out_incomplete(table, ks) ==
    IF "input_draw" \notin DOMAIN ks THEN Raise("KeyError")
    ELSE IF ks.input_draw = <<>> THEN Raise("ValueError")
    ELSE IF ~({"random_seed", "scenario"} \subseteq DOMAIN ks) THEN Raise("KeyError")
    ELSE Return(Concat(table, ks, 1))

\* read_data(path, single_run): the table (columns renamed) and the keyspace;
\* a single run's draw and seed are set to 0 and its scenario to baseline
read_data(file, keyspace_file, single_run) ==
    /\ stage = "idle"
    /\ data' = IF single_run
               THEN [i \in 1..Len(file) |-> Row(0, 0, BASELINE, file[i].deaths)]
               ELSE file
    /\ keyspace' = Some(IF single_run THEN SingleRunKeyspace ELSE keyspace_file)
    /\ stage' = "read"
    /\ UNCHANGED <<filtered, aggregated, reshapeVars, readVars, schemaVars, stratVars>>

\* data = filter_out_incomplete(data, keyspace)
FilterOutIncomplete ==
    /\ stage = "read"
    /\ filtered' = filter_out_incomplete(data, keyspace.value)
    /\ stage' = "filtered"
    /\ UNCHANGED <<data, keyspace, aggregated, reshapeVars, readVars, schemaVars, stratVars>>

\* the filter applied to its own result
FilterOutIncompleteAgain ==
    /\ stage = "filtered"
    /\ filtered.raised = "none"
    /\ filtered' = filter_out_incomplete(filtered.value, keyspace.value)
    /\ stage' = "refiltered"
    /\ UNCHANGED <<data, keyspace, aggregated, reshapeVars, readVars, schemaVars, stratVars>>

(***************************************************************************)
(* results_processing/process_results.py: aggregate_over_seed              *)
(***************************************************************************)
\* a missing value (NaN) in a numeric column
NaN == -1
\* a value as sum() takes it: missing values are skipped
Numeric(v) == IF v = NaN THEN 0 ELSE v

\* results.NON_COUNT_TEMPLATES
NON_COUNT_TEMPLATES == <<>>
\* GROUPBY_COLUMNS
GROUPBY_COLUMNS == <<"input_draw", "scenario">>

\* non_count_columns: the columns of every non-count template
non_count_columns == ColumnsOfKinds(NON_COUNT_TEMPLATES)

\* the columns of a table (of its rows)
ColumnsOfTable(table) == IF table = <<>> THEN {} ELSE DOMAIN table[1]

\* count_columns = [c for c in data.columns
\*                  if c not in non_count_columns + GROUPBY_COLUMNS]
count_columns(table) ==
    {c \in ColumnsOfTable(table) : c \notin SetOf(non_count_columns \o GROUPBY_COLUMNS)}

\* the group a row belongs to: its values of GROUPBY_COLUMNS
GroupKey(row) == <<row.input_draw, row.scenario>>

\* the order of str: the scenario names in ascending order
SortedScenarioNames == <<BASELINE, INTERVENTION>>
ScenarioRank(scenario_name) ==
    CHOOSE i \in 1..Len(SortedScenarioNames) : SortedScenarioNames[i] = scenario_name

\* the order of the group keys: by input_draw, then by scenario
KeyLess(k1, k2) ==
    \/ k1[1] < k2[1]
    \/ k1[1] = k2[1] /\ ScenarioRank(k1[2]) < ScenarioRank(k2[2])

RECURSIVE SortedKeys(_)
SortedKeys(keys) ==
    IF keys = {} THEN <<>>
    ELSE LET first == CHOOSE k \in keys : \A other \in keys \ {k} : KeyLess(k, other)
         IN  <<first>> \o SortedKeys(keys \ {first})

\* the groups in the order in which their first rows appear
RECURSIVE GroupKeys_InOrderOfAppearance(_)
GroupKeys_InOrderOfAppearance(table) ==
    IF table = <<>> THEN <<>>
    ELSE LET before == GroupKeys_InOrderOfAppearance(SubSeq(table, 1, Len(table) - 1))
             key    == GroupKey(table[Len(table)])
         IN  IF key \in SetOf(before) THEN before ELSE Append(before, key)

\* a group for every row, rows of one key not brought together
GroupKeys_WithRepeats(table) == [i \in 1..Len(table) |-> GroupKey(table[i])]

\* .groupby(GROUPBY_COLUMNS): the groups, sorted by their keys
GroupKeys(table) == SortedKeys({GroupKey(table[i]) : i \in 1..Len(table)})

RECURSIVE SumOfColumn(_, _)
SumOfColumn(rows, c) ==
    IF rows = <<>> THEN 0 ELSE Numeric(Head(rows)[c]) + SumOfColumn(Tail(rows), c)

\* the mean of the group instead of its sum
GroupSum_Mean(rows, c) == SumOfColumn(rows, c) \div Len(rows)

\* the first row of the group instead of the sum
GroupSum_First(rows, c) == Numeric(rows[1][c])

\* .sum() of one column of one group
GroupSum(rows, c) == SumOfColumn(rows, c)

\* aggregate_over_seed(data): one row per group, the group's keys and the sum
\* of every count column over the rows of the group
aggregate_over_seed(table) ==
    LET keys == GroupKeys(table)
        cols == count_columns(table) \cup SetOf(GROUPBY_COLUMNS)
    IN  [g \in 1..Len(keys) |->
            LET rows == SelectSeq(table, LAMBDA row : GroupKey(row) = keys[g])
            IN  [c \in cols |->
                    IF c = "input_draw" THEN keys[g][1]
                    ELSE IF c = "scenario" THEN keys[g][2]
                    ELSE GroupSum(rows, c)]]

\* data = aggregate_over_seed(data), on the filtered table
AggregateOverSeed ==
    /\ stage = "filtered"
    /\ filtered.raised = "none"
    /\ aggregated' = aggregate_over_seed(filtered.value)
    /\ stage' = "aggregated"
    /\ UNCHANGED <<data, keyspace, filtered, reshapeVars, readVars, schemaVars, stratVars>>

InitFilter ==
    /\ InitSchemaIdle
    /\ InitStratIdle
    /\ InitFilterIdle

NextFilter ==
    \/ \E file \in OutputFiles : \E keyspace_file \in KeyspaceFiles :
           read_data(file, keyspace_file, FALSE)
    \/ \E file \in OutputFiles : read_data(file, SingleRunKeyspace, TRUE)
    \/ FilterOutIncomplete
    \/ FilterOutIncompleteAgain
    \/ AggregateOverSeed

SpecFilter == InitFilter /\ [][NextFilter]_vars

(***************************************************************************)
(* Claims about the completion filter (checked under SpecFilter)           *)
(***************************************************************************)
\* how often a row occurs in a table
Count(table, row) == Cardinality({i \in 1..Len(table) : table[i] = row})
\* the rows of a table
RowsOf(table) == {table[i] : i \in 1..Len(table)}
\* the seed of the row is present, for the row's draw, in the given scenario
PresentIn(table, row, scenario_name) ==
    \E i \in 1..Len(table) :
        /\ table[i].input_draw = row.input_draw
        /\ table[i].scenario = scenario_name
        /\ table[i].random_seed = row.random_seed
\* the draw is in the keyspace and the seed is present, for that draw, in
\* every scenario of the keyspace
CompleteInData(table, ks, row) ==
    /\ row.input_draw \in SetOf(ks.input_draw)
    /\ \A sc \in SetOf(ks.scenario) : PresentIn(table, row, sc)
\* Scenario B: draw 0 loses seed 20 in baseline too, draw 1 is unchanged
ScenarioBFiltered ==
    <<Row(0, 10, BASELINE, 1), Row(0, 10, INTERVENTION, 1),
      Row(1, 10, BASELINE, 1), Row(1, 10, INTERVENTION, 2),
      Row(1, 20, BASELINE, 1), Row(1, 20, INTERVENTION, 1)>>
\* after filtering every scenario of the keyspace has, for a draw of the
\* keyspace, the same set of seeds
SameSeedsInEveryScenario(table, ks) ==
    \A d \in SetOf(ks.input_draw) : \A sc1, sc2 \in SetOf(ks.scenario) :
        SeedsInData(DrawData(table, d), sc1) = SeedsInData(DrawData(table, d), sc2)

\* C9 as claimed -- filter_out_incomplete retains a row exactly when its draw
\* is in the keyspace and its seed is present, for that draw, in every scenario
\* of the keyspace; so every scenario of a draw has the same seeds afterwards;
\* and Scenario B's table is filtered as the scenario says.
C9_RetainedIffCompleteInData ==
    (stage = "filtered" /\ filtered.raised = "none") =>
        /\ \A row \in RowsOf(data) :
               Count(filtered.value, row) =
                   IF CompleteInData(data, keyspace.value, row)
                   THEN Count(data, row) ELSE 0
        /\ RowsOf(filtered.value) \subseteq RowsOf(data)
        /\ SameSeedsInEveryScenario(filtered.value, keyspace.value)
        /\ (data = ScenarioBData /\ keyspace.value = ScenarioBKeyspace) =>
               filtered.value = ScenarioBFiltered

\* C9 as amended -- filter_out_incomplete retains a row exactly when its draw
\* and its seed are both listed in the keyspace and its seed is present, for
\* that draw, in every scenario of the keyspace; so every scenario of a draw
\* has the same seeds afterwards; and Scenario B's table is filtered as the
\* scenario says.
C9_RetainedIffListedAndComplete ==
    (stage = "filtered" /\ filtered.raised = "none") =>
        /\ \A row \in RowsOf(data) :
               Count(filtered.value, row) =
                   IF /\ row.random_seed \in SetOf(keyspace.value.random_seed)
                      /\ CompleteInData(data, keyspace.value, row)
                   THEN Count(data, row) ELSE 0
        /\ RowsOf(filtered.value) \subseteq RowsOf(data)
        /\ SameSeedsInEveryScenario(filtered.value, keyspace.value)
        /\ (data = ScenarioBData /\ keyspace.value = ScenarioBKeyspace) =>
               filtered.value = ScenarioBFiltered

\* C9 witness: Scenario B has been filtered, with rows dropped and rows kept.
C9_Witness ==
    /\ stage = "filtered"
    /\ filtered.raised = "none"
    /\ data = ScenarioBData
    /\ keyspace.value = ScenarioBKeyspace
    /\ Len(filtered.value) = 6

\* C10 -- Completion filtering is idempotent: the table returned by filtering
\* the filtered table with the same keyspace is the table the first filtering
\* of the data returned.
C10_Idempotent ==
    stage = "refiltered" =>
        /\ filtered.raised = "none"
        /\ filtered = filter_out_incomplete(data, keyspace.value)

\* C10 witness: the filter has been applied twice to a table of which the
\* first application dropped a row and kept two.
C10_Witness ==
    /\ stage = "refiltered"
    /\ filtered.raised = "none"
    /\ Len(filtered.value) >= 2
    /\ Len(filtered.value) < Len(data)


(***************************************************************************)
(* Claims about aggregation (checked under SpecFilter)                     *)
(***************************************************************************)
\* the sum of column c over the rows of the table at the positions in I
RECURSIVE Total(_, _, _)
Total(table, I, c) ==
    IF I = {} THEN 0
    ELSE LET i == CHOOSE j \in I : TRUE
         IN  Numeric(table[i][c]) + Total(table, I \ {i}, c)
\* the positions of the rows of a (draw, scenario) group
GroupIndex(table, draw, scenario_name) ==
    {i \in 1..Len(table) :
        table[i].input_draw = draw /\ table[i].scenario = scenario_name}
\* the count-type columns: every column that is no group-by column (the list of
\* non-count columns is empty)
CountTypeColumns(table) == ColumnsOfTable(table) \ {"input_draw", "scenario"}
\* the value an aggregated table holds for a group and a column, 0 when the
\* table has no row of the group
AggregatedCell(table, key, c) ==
    LET I == {i \in 1..Len(table) : GroupKey(table[i]) = key}
    IN  IF I = {} THEN 0 ELSE table[CHOOSE i \in I : TRUE][c]
\* the seeds of the rows of a table
SeedsOf(table) == {table[i].random_seed : i \in 1..Len(table)}
\* the rows of a table whose seed is in S
WithSeeds(table, S) == SelectSeq(table, LAMBDA row : row.random_seed \in S)

\* C11 -- aggregate_over_seed returns one row for each (input_draw, scenario)
\* group of its input, and that row holds, for every count-type column (every
\* column that is no group-by column and in no non-count template), the sum of
\* the column over all rows (seeds) of the group: a sum, never a mean.
C11_SumOverSeeds ==
    stage = "aggregated" =>
        /\ \A i \in 1..Len(filtered.value) :
               Cardinality({g \in 1..Len(aggregated) :
                               GroupKey(aggregated[g]) = GroupKey(filtered.value[i])}) = 1
        /\ \A g \in 1..Len(aggregated) :
               /\ GroupIndex(filtered.value, aggregated[g].input_draw,
                             aggregated[g].scenario) # {}
               /\ DOMAIN aggregated[g] = ColumnsOfTable(filtered.value)
               /\ \A c \in CountTypeColumns(filtered.value) :
                      aggregated[g][c] =
                          Total(filtered.value,
                                GroupIndex(filtered.value, aggregated[g].input_draw,
                                           aggregated[g].scenario), c)

\* C11 witness: Scenario B's table has been aggregated; draw 1's baseline group
\* holds two seeds whose counts add up to 2, a mean would give 1.
C11_Witness ==
    /\ stage = "aggregated"
    /\ data = ScenarioBData
    /\ keyspace.value = ScenarioBKeyspace
    /\ Len(aggregated) = 4
    /\ aggregated[3].input_draw = 1
    /\ aggregated[3].deaths = 2

\* C12 -- Aggregation is associative over seed subsets: for every split of the
\* seeds into two disjoint subsets, the aggregate of the rows of the one subset
\* plus the aggregate of the rows of the other equals, for every group and
\* every count column, the aggregate of all rows.
C12_Associative ==
    stage = "aggregated" =>
        \A S \in SUBSET SeedsOf(filtered.value) :
            LET one   == aggregate_over_seed(WithSeeds(filtered.value, S))
                other == aggregate_over_seed(
                             WithSeeds(filtered.value, SeedsOf(filtered.value) \ S))
            IN  \A g \in 1..Len(aggregated) :
                    \A c \in CountTypeColumns(filtered.value) :
                        AggregatedCell(one, GroupKey(aggregated[g]), c)
                            + AggregatedCell(other, GroupKey(aggregated[g]), c)
                        = aggregated[g][c]

\* C12 witness: a group with two seeds of different counts has been aggregated,
\* so some split puts a row on either side.
C12_Witness ==
    /\ stage = "aggregated"
    /\ \E i, j \in 1..Len(filtered.value) :
           /\ GroupKey(filtered.value[i]) = GroupKey(filtered.value[j])
           /\ filtered.value[i].random_seed # filtered.value[j].random_seed
           /\ filtered.value[i].deaths # filtered.value[j].deaths

\* the permutations of 1..n
AllOrders(n) ==
    {p \in [1..n -> 1..n] : \A i, j \in 1..n : i # j => p[i] # p[j]}
\* the exchanges of two positions, the reversal and the rotations of 1..n
Exchanges(n) ==
    {[k \in 1..n |-> IF k = i THEN j ELSE IF k = j THEN i ELSE k] : i, j \in 1..n}
        \cup {[k \in 1..n |-> n + 1 - k]}
        \cup {[k \in 1..n |-> ((k + r - 1) % n) + 1] : r \in 1..n}
\* the orders in which the runs of a table are loaded: every permutation of a
\* short table, the exchanges, reversal and rotations of a long one
LoadOrders(n) == IF n <= MaxRows + 1 THEN AllOrders(n) ELSE Exchanges(n)
Permuted(table, p) == [i \in 1..Len(table) |-> table[p[i]]]

\* C13 -- Load order does not matter: for every permutation of the rows of the
\* record table, filter_out_incomplete followed by aggregate_over_seed returns
\* the table it returns for the rows in the order read, row order included.
C13_LoadOrderDoesNotMatter ==
    stage = "aggregated" =>
        \A p \in LoadOrders(Len(data)) :
            LET again == filter_out_incomplete(Permuted(data, p), keyspace.value)
            IN  /\ again.raised = "none"
                /\ aggregate_over_seed(again.value) = aggregated

\* C13 witness: a table has been aggregated to several groups, and loading its
\* rows in another order changes the order of the filtered rows.
C13_Witness ==
    /\ stage = "aggregated"
    /\ Len(aggregated) >= 2
    /\ \E p \in LoadOrders(Len(data)) :
           /\ filter_out_incomplete(Permuted(data, p), keyspace.value).value
                  # filtered.value
           /\ GroupKeys_InOrderOfAppearance(
                  filter_out_incomplete(Permuted(data, p), keyspace.value).value)
                  # GroupKeys_InOrderOfAppearance(filtered.value)

\* the seeds of a draw that are listed in the keyspace and present in every
\* scenario of the keyspace
SurvivingSeeds(table, ks, draw) ==
    {s \in SetOf(ks.random_seed) :
        \A sc \in SetOf(ks.scenario) :
            \E i \in 1..Len(table) :
                /\ table[i].input_draw = draw
                /\ table[i].scenario = sc
                /\ table[i].random_seed = s}
\* the draws of the keyspace of which no seed survives
EmptyDraws(table, ks) ==
    {d \in SetOf(ks.input_draw) : SurvivingSeeds(table, ks, d) = {}}

\* C20 -- A draw of which no seed survives completion filtering contributes no
\* row and does not make filter_out_incomplete fail; the rows of the other
\* draws are returned as they are without the rows of that draw, also when no
\* draw of the keyspace keeps a seed (the result is then the empty table).
C20_EmptyDrawIsNoFailure ==
    (stage = "filtered" /\ keyspace.value.input_draw # <<>>) =>
        /\ filtered.raised = "none"
        /\ \A i \in 1..Len(filtered.value) :
               filtered.value[i].input_draw \notin EmptyDraws(data, keyspace.value)
        /\ filtered =
               filter_out_incomplete(
                   SelectSeq(data, LAMBDA row :
                                 row.input_draw \notin EmptyDraws(data, keyspace.value)),
                   keyspace.value)
        /\ (EmptyDraws(data, keyspace.value) = SetOf(keyspace.value.input_draw)) =>
               filtered.value = <<>>

\* C20 witness: draw 0 has a run but keeps no seed while draw 1 keeps its rows;
\* or every draw of the keyspace has runs and none keeps a seed.
C20_Witness ==
    /\ stage = "filtered"
    /\ filtered.raised = "none"
    /\ \/ /\ data = OneDrawIncompleteData
          /\ keyspace.value = ScenarioBKeyspace
          /\ Len(filtered.value) = 2
       \/ /\ EmptyDraws(data, keyspace.value) = SetOf(keyspace.value.input_draw)
          /\ \A d \in SetOf(keyspace.value.input_draw) : DrawData(data, d) # <<>>
          /\ Len(keyspace.value.input_draw) = 2


(***************************************************************************)
(* results_processing/process_results.py: pivot_data, apply_results_map,   *)
(* sort_data, get_measure_data                                             *)
(***************************************************************************)
RANDOM_SEED_COLUMN == "random_seed"
OUTPUT_COLUMN_SORT_ORDER ==
    <<"age_group", "sex", "year", "risk", "cause", "measure", "input_draw">>

\* RENAME_COLUMNS, applied to one column name
RenameColumn(c) ==
    IF c = "age_group" THEN "age" ELSE IF c = "cause_of_death" THEN "cause" ELSE c

\* groupby_cols of pivot_data
groupby_cols(flag) ==
    IF flag THEN GROUPBY_COLUMNS \o <<RANDOM_SEED_COLUMN>> ELSE GROUPBY_COLUMNS

\* .stack() of one row: a (key, value) pair for every value column, in the
\* order of the columns; a missing value gives no pair
Stack(row, value_columns) ==
    SelectSeq([i \in 1..Len(value_columns) |-> [key |-> value_columns[i],
                                                value |-> row[value_columns[i]]]],
              LAMBDA pair : pair.value # NaN)

\* pivot_data(data[value_columns + groupby_cols], disaggregate_seeds): the rows
\* of the long table from row number `from` on
RECURSIVE pivot_data(_, _, _, _)
pivot_data(table, value_columns, flag, from) ==
    IF from > Len(table) THEN <<>>
    ELSE LET row   == table[from]
             pairs == Stack(row, value_columns)
         IN  [i \in 1..Len(pairs) |->
                 [c \in SetOf(groupby_cols(flag)) \cup {"key", "value"} |->
                     IF c = "key" THEN pairs[i].key
                     ELSE IF c = "value" THEN pairs[i].value
                     ELSE row[c]]]
             \o pivot_data(table, value_columns, flag, from + 1)

\* data.set_index('key').join(map_df).reset_index(drop=True).rename(...) for
\* one row of data: a row for every row of map_df with the key, and one row
\* with missing fields when there is none
JoinRow(row, map_df, k) ==
    LET found  == Loc(map_df, row.key)
        labels == {RenameColumn(map_df.fields[j]) : j \in 1..Len(map_df.fields)}
        cols   == (DOMAIN row \ {"key"}) \cup labels \cup {"measure"}
        Field(c, m) == m.values[CHOOSE j \in 1..Len(map_df.fields) :
                                    RenameColumn(map_df.fields[j]) = c]
    IN  IF found = <<>>
        THEN << [c \in cols |-> IF c \in DOMAIN row THEN row[c] ELSE NaN] >>
        ELSE [i \in 1..Len(found) |->
                 [c \in cols |->
                     IF c \in DOMAIN row THEN row[c]
                     ELSE IF c = "measure" THEN found[i].measure
                     ELSE Field(c, found[i])]]

\* apply_results_map(data, kind) for the rows lo..hi of data, in their order
RECURSIVE apply_results_map(_, _, _, _, _)
apply_results_map(table, map_df, k, lo, hi) ==
    IF lo > hi THEN <<>>
    ELSE IF lo = hi THEN JoinRow(table[lo], map_df, k)
    ELSE LET mid == (lo + hi) \div 2
         IN  apply_results_map(table, map_df, k, lo, mid)
                 \o apply_results_map(table, map_df, k, mid + 1, hi)

\* the order of the values of a sort column: numbers by value, strings by the
\* order of str
SortedStrings == <<"female", "male">>
ValueLess(c, a, b) ==
    IF c \in {"year", "input_draw", "random_seed"} THEN a < b
    ELSE /\ a # b
         /\ (CHOOSE i \in 1..Len(SortedStrings) : SortedStrings[i] = a)
                < (CHOOSE i \in 1..Len(SortedStrings) : SortedStrings[i] = b)

\* row1 sorts before row2 by the columns of sort_order
RECURSIVE RowLess(_, _, _)
RowLess(row1, row2, sort_order) ==
    IF sort_order = <<>> THEN FALSE
    ELSE LET c == Head(sort_order)
         IN  \/ ValueLess(c, row1[c], row2[c])
             \/ row1[c] = row2[c] /\ RowLess(row1, row2, Tail(sort_order))

\* sort_values(sort_order): a row comes after the rows that sort before it and
\* after the earlier rows with equal keys
SortValues(table, sort_order) ==
    LET n     == Len(table)
        ranks == {<<i, 1 + Cardinality({j \in 1..n :
                           \/ RowLess(table[j], table[i], sort_order)
                           \/ j < i /\ ~RowLess(table[i], table[j], sort_order)})>> :
                      i \in 1..n}
    IN  [p \in 1..n |-> table[(CHOOSE pair \in ranks : pair[2] = p)[1]]]

\* sort_data(data, disaggregate_seeds)
sort_data(table, flag) ==
    LET output_cols_sort_order ==
            IF flag THEN OUTPUT_COLUMN_SORT_ORDER \o <<RANDOM_SEED_COLUMN>>
            ELSE OUTPUT_COLUMN_SORT_ORDER
        sort_order == SelectSeq(output_cols_sort_order,
                                LAMBDA c : c \in ColumnsOfTable(table))
    IN  SortValues(table, sort_order)

\* get_measure_data(data, measure, disaggregate_seeds)
get_measure_data(table, m, flag) ==
    LET cols   == RESULT_COLUMNS(m)
        map_df == RESULTS_MAP(m)
    IN  IF cols.raised # "none" THEN cols
        ELSE IF \E i \in 1..Len(table) :
                    ~(SetOf(cols.value \o groupby_cols(flag)) \subseteq DOMAIN table[i])
        THEN Raise("KeyError")
        ELSE IF map_df.raised # "none" THEN map_df
        ELSE LET pivoted == pivot_data(table, cols.value, flag, 1)
             IN  Return(sort_data(
                            apply_results_map(pivoted, map_df.value, m, 1, Len(pivoted)),
                            flag))

(***************************************************************************)
(* The reshaping machine: a record table, aggregated over the seeds unless *)
(* the seeds are kept, is turned into the long table of a measure          *)
(***************************************************************************)
\* the measures whose long tables are made
MeasuresReshaped == {"diarrhea_state_person_time", "diarrhea_transition_count"}

\* the value columns of a record table
WideColumns ==
    RESULT_COLUMNS("diarrhea_state_person_time").value
        \o RESULT_COLUMNS("diarrhea_transition_count").value

\* the values of a run: every column 1, or the first value column missing and
\* 2 in the others
CellPatterns == {"ones", "missing"}

\* a row of the record table
WideRow(draw, seed, pattern) ==
    LET value_columns == WideColumns
        first         == value_columns[1]
    IN  [c \in {"input_draw", "random_seed", "scenario"} \cup SetOf(value_columns) |->
            IF c = "input_draw" THEN draw
            ELSE IF c = "random_seed" THEN seed
            ELSE IF c = "scenario" THEN BASELINE
            ELSE IF pattern = "ones" THEN 1
            ELSE IF c = first THEN NaN
            ELSE 2]

\* the record tables: at most MaxRows runs of draws 0, 1 and seeds 10, 20; an
\* identity may occur twice
WideRows == {WideRow(d, sd, pattern) : d \in {0, 1}, sd \in {10, 20}, pattern \in CellPatterns}
RecordTables == UNION {[1..n -> WideRows] : n \in 0..MaxRows}

\* the table handed on by the earlier stages, and the flag of the invocation
Records(table, flag) ==
    /\ stage = "idle"
    /\ data' = table
    /\ disaggregate_seeds' = flag
    /\ stage' = "records"
    /\ UNCHANGED <<keyspace, filtered, aggregated, measure, long, readVars, schemaVars, stratVars>>

\* the seeds are aggregated unless they are kept
AggregateRecords ==
    /\ stage = "records"
    /\ ~disaggregate_seeds
    /\ aggregated' = aggregate_over_seed(data)
    /\ stage' = "summed"
    /\ UNCHANGED <<data, keyspace, filtered, reshapeVars, readVars, schemaVars, stratVars>>

\* make_measure_data: get_measure_data(data, measure, disaggregate_seeds)
GetMeasureData(m) ==
    /\ \/ stage = "records" /\ disaggregate_seeds
       \/ stage = "summed"
    /\ measure' = m
    /\ long' = get_measure_data(IF disaggregate_seeds THEN data ELSE aggregated,
                                m, disaggregate_seeds)
    /\ stage' = "reshaped"
    /\ UNCHANGED <<data, keyspace, filtered, aggregated, disaggregate_seeds,
                   readVars, schemaVars, stratVars>>

InitReshape ==
    /\ InitSchemaIdle
    /\ InitStratIdle
    /\ InitFilterIdle

NextReshape ==
    \/ /\ stage = "idle"
       /\ \E table \in RecordTables : \E flag \in BOOLEAN : Records(table, flag)
    \/ AggregateRecords
    \/ \E m \in MeasuresReshaped : GetMeasureData(m)

SpecReshape == InitReshape /\ [][NextReshape]_vars


(***************************************************************************)
(* Claims about reshaping (checked under SpecReshape)                      *)
(***************************************************************************)
\* the wide table get_measure_data was called with
WideTable == IF disaggregate_seeds THEN data ELSE aggregated
\* get_measure_data has returned a long table
Reshaped == stage = "reshaped" /\ long.raised = "none"
\* the columns that key a row of a long table: all but the value and the seed
KeyColumns(row) == DOMAIN row \ {"value", "random_seed"}
SameKey(row1, row2) == \A c \in KeyColumns(row1) : row1[c] = row2[c]

\* C14 -- Reshape row-count invariant: the long table has as many rows as the
\* wide table has rows times the number of value columns pivoted, also when a
\* value is missing; no row is dropped and none is duplicated.
C14_RowCount ==
    Reshaped =>
        Len(long.value) = Len(WideTable) * Len(RESULT_COLUMNS(measure).value)

\* C15 as claimed -- No two rows of the long table of a measure share their
\* stratum/demographic fields, input_draw and scenario, whatever the record
\* table: also when an identity occurs twice and when the seeds are kept.
C15_UniqueByFieldsDrawScenario ==
    Reshaped =>
        \A i, j \in 1..Len(long.value) :
            i # j => ~SameKey(long.value[i], long.value[j])

\* no (draw, seed, scenario) identity occurs twice in the record table
UniqueIdentities ==
    \A i, j \in 1..Len(data) :
        (/\ i # j
         /\ data[i].input_draw = data[j].input_draw
         /\ data[i].scenario = data[j].scenario) =>
            data[i].random_seed # data[j].random_seed

\* C15 as amended -- When the seeds are aggregated, no two rows of the long
\* table of a measure share their stratum/demographic fields, input_draw and
\* scenario.  When the seeds are kept, random_seed is part of the key: no two
\* rows that share fields, input_draw and scenario share the seed, provided no
\* (draw, seed, scenario) identity occurs twice in the record table.
C15_UniqueKey ==
    Reshaped =>
        \A i, j \in 1..Len(long.value) :
            (i # j /\ SameKey(long.value[i], long.value[j])) =>
                /\ disaggregate_seeds
                /\ UniqueIdentities =>
                       long.value[i].random_seed # long.value[j].random_seed

\* C15 witness: the seeds are kept, two runs of one draw and scenario differ in
\* their seed, and two rows of the long table share fields, input_draw and
\* scenario and differ in random_seed only.
C15_Witness ==
    /\ Reshaped
    /\ disaggregate_seeds
    /\ UniqueIdentities
    /\ Len(data) = 2
    /\ \E i, j \in 1..Len(long.value) :
           /\ i # j
           /\ SameKey(long.value[i], long.value[j])
           /\ long.value[i].random_seed # long.value[j].random_seed


(***************************************************************************)
(* Claims about the errors of the schema (checked under SpecSchema)        *)
(***************************************************************************)
\* a kind was asked for that COLUMN_TEMPLATES does not declare
UndeclaredAsked == kind # NoKind /\ ~HasKey(ColumnTemplates, kind)
UnknownMeasureError(answer) == answer.raised = "ValueError" /\ answer.value = <<>>

\* C16 as claimed -- Asking for the columns or for the parse map of a measure
\* that COLUMN_TEMPLATES does not declare fails with an unknown-measure error
\* and gives no partial result, in RESULT_COLUMNS and in RESULTS_MAP alike, for
\* every undeclared name.
C16_EveryUndeclaredNameFails ==
    UndeclaredAsked =>
        UnknownMeasureError(columns) /\ UnknownMeasureError(results_map)

\* C16 as amended -- RESULTS_MAP fails with an unknown-measure error for every
\* undeclared name; RESULT_COLUMNS fails for every undeclared name but 'all',
\* for which it returns the standard columns followed by the columns of every
\* declared measure.
C16_UndeclaredFailsButAll ==
    UndeclaredAsked =>
        /\ UnknownMeasureError(results_map)
        /\ kind # "all" => UnknownMeasureError(columns)
        /\ kind = "all" =>
               /\ columns.raised = "none"
               /\ SetOf(columns.value) =
                      SetOf(Values(STANDARD_COLUMNS))
                          \cup UNION {SetOf(ColumnsOfKind(ColumnTemplates[i].key)) :
                                          i \in 1..Len(ColumnTemplates)}

\* C16 witness: an undeclared name other than 'all' was asked for and both
\* answers are the error.
C16_Witness ==
    /\ kind = "population"
    /\ UnknownMeasureError(columns)
    /\ UnknownMeasureError(results_map)


(***************************************************************************)
(* Claims about the errors of the stratifier (checked under Spec)          *)
(***************************************************************************)
\* the name of the dimension is registered already, or it has no categories
Rejected(r) ==
    \/ HasKey(stratification_levels, r.stratification_name)
    \/ AsDict(r.categories) = <<>>

\* C17 -- Registering a stratification dimension fails with a configuration
\* error and leaves the registry unchanged when the name of the dimension is
\* registered already or when the collection of categories is empty.
C17_RejectedRegistrationFails ==
    [][\A r \in RegistrationInputs :
           (setup_stratification(r) /\ Rejected(r)) =>
               /\ raised' = "ConfigurationError"
               /\ UNCHANGED <<stratification_levels, pipelines, columns_required>>]_vars

\* the sources the predicates of the registered dimensions read
RequiredSources ==
    UNION {{stratification_levels[m].value[c].value.source_name :
                c \in 1..Len(stratification_levels[m].value)} : m \in Dimensions}
\* a state field a registered dimension needs is no column of the snapshot
RequiredFieldAbsent == \E source_name \in RequiredSources : source_name \notin PopColumns

\* C18 -- If a state field a registered dimension needs is absent from the
\* population snapshot, the assignment fails with a missing-column error, gives
\* no keys, and leaves the cached assignment as it was.
C18_MissingFieldFails ==
    [][(on_timestep_prepare /\ RequiredFieldAbsent) =>
           /\ raised' = "KeyError"
           /\ UNCHANGED stratification_groups]_vars

\* C19 -- An empty population snapshot is no error: while the population is
\* empty no call of the stratifier has raised, the assignment of the empty
\* index is the empty mapping, and group has yielded one empty subgroup for
\* every stratification combination.
C19_EmptyPopulationIsNoError ==
    population = <<>> =>
        /\ raised = "none"
        /\ Cached => stratification_groups.value = <<>>
        /\ reader # "none" =>
               /\ Len(yielded) = Len(get_all_stratifications)
               /\ \A s \in 1..Len(yielded) : yielded[s].pop_in_group = <<>>


(***************************************************************************)
(* results_processing/process_results.py: read_data on files that may be   *)
(* missing, unreadable or malformed                                        *)
(***************************************************************************)
\* an output.hdf: a table, or a file pd.read_hdf cannot read
Readable(table)  == [kind |-> "table", rows |-> table]
Unreadable(why)  == [kind |-> why, rows |-> <<>>]
HdfFiles ==
    {Readable(table) : table \in OutputFiles}
        \cup {Unreadable("missing"), Unreadable("corrupt")}

\* a keyspace.yaml: a mapping, or a file that is missing or is no YAML
Mapping(ks) == [kind |-> "mapping", value |-> ks]
NoMapping(why) == [kind |-> why, value |-> <<>>]
\* mappings that parse and lack a list
KeyspaceWithoutDraws == [random_seed |-> <<10, 20>>, scenario |-> <<BASELINE>>]
KeyspaceWithoutScenarios == [input_draw |-> <<0, 1>>, random_seed |-> <<10, 20>>]
YamlFiles ==
    {Mapping(ks) : ks \in KeyspaceFiles}
        \cup {Mapping(KeyspaceWithoutDraws), Mapping(KeyspaceWithoutScenarios)}
        \cup {NoMapping("missing"), NoMapping("unparseable")}

\* pd.read_hdf(path): the exceptions an unreadable file may end in
HdfErrors(file) ==
    IF file.kind = "missing" THEN {"FileNotFoundError"}
    ELSE IF file.kind = "corrupt" THEN {"OSError", "HDF5ExtError"}
    ELSE {}

\* (path.parent / 'keyspace.yaml').open() and yaml.full_load(f)
yaml_full_load(file) ==
    IF file.kind = "missing" THEN Raise("FileNotFoundError")
    ELSE IF file.kind = "unparseable" THEN Raise("YAMLError")
    ELSE Return(file.value)

\* read_data(path, single_run) when pd.read_hdf has returned the table: the
\* pair (data, keyspace), or the exception of the keyspace file
read_data_After_read_hdf(table, keyspace_file, single_run) ==
    IF single_run
    THEN Return(<<[i \in 1..Len(table) |-> Row(0, 0, BASELINE, table[i].deaths)],
                  SingleRunKeyspace>>)
    ELSE LET ks == yaml_full_load(keyspace_file)
         IN  IF ks.raised # "none" THEN ks ELSE Return(<<table, ks.value>>)

\* data, keyspace = read_data(path, single_run)
ReadPath(file, keyspace_file, single_run) ==
    /\ stage = "idle"
    /\ path' = [output |-> file, keyspace_yaml |-> keyspace_file, single_run |-> single_run]
    /\ \E result \in IF file.kind = "table"
                     THEN {read_data_After_read_hdf(file.rows, keyspace_file, single_run)}
                     ELSE {Raise(e) : e \in HdfErrors(file)} :
           /\ loaded' = result
           /\ IF result.raised = "none"
              THEN /\ data' = result.value[1]
                   /\ keyspace' = Some(result.value[2])
                   /\ stage' = "read"
              ELSE /\ stage' = "aborted"
                   /\ UNCHANGED <<data, keyspace>>
    /\ UNCHANGED <<filtered, aggregated, reshapeVars, schemaVars, stratVars>>

InitRead ==
    /\ InitSchemaIdle
    /\ InitStratIdle
    /\ InitFilterIdle

NextRead ==
    \/ /\ stage = "idle"
       /\ \E file \in HdfFiles : \E keyspace_file \in YamlFiles :
              \E single_run \in BOOLEAN : ReadPath(file, keyspace_file, single_run)
    \/ FilterOutIncomplete

SpecRead == InitRead /\ [][NextRead]_vars


(***************************************************************************)
(* Claims about reading (checked under SpecRead)                           *)
(***************************************************************************)
\* read_data was called
Called == path # <<>>

\* C21 -- A single corrupt or unreadable run file is recovered locally: it is
\* skipped with a warning and loading goes on, so read_data still returns the
\* records of the remaining run files and they are processed.
C21_UnreadableFileIsSkipped ==
    (Called /\ path.output.kind # "table") =>
        /\ loaded.raised = "none"
        /\ stage \in {"read", "filtered"}

\* the keyspace descriptor is missing or malformed
BadDescriptor ==
    \/ path.keyspace_yaml.kind # "mapping"
    \/ ~({"input_draw", "random_seed", "scenario"} \subseteq DOMAIN path.keyspace_yaml.value)

\* C22 -- In multi-run mode a missing or malformed keyspace descriptor is
\* fatal: read_data raises, and no record table, keyspace or partial result is
\* returned for the invocation.
C22_BadDescriptorIsFatal ==
    (Called /\ ~path.single_run /\ BadDescriptor) =>
        /\ loaded.raised # "none"
        /\ loaded.value = <<>>
        /\ stage = "aborted"
        /\ data = <<>> /\ keyspace = None /\ filtered = Return(<<>>)


(***************************************************************************)
(* Claims about the tie-break of the assignment (checked under Spec)       *)
(***************************************************************************)
\* the combination made of the last-declared matching category of every
\* dimension
LastMatching(sim) ==
    [m \in Dimensions |->
        [metric   |-> stratification_levels[m].key,
         category |-> stratification_levels[m].value[
                          Max(MatchingCategories(m, sim))].key]]

\* C23 -- Tie-break on overlapping predicates is sequential overwrite: a
\* simulant that some category of every dimension matches ends with the key of
\* the combination that holds, for every dimension, the last of its matching
\* categories in iteration order.
C23_SequentialOverwrite ==
    Cached =>
        \A i \in CachedIndex :
            MatchedEverywhere(population[i]) =>
                /\ \E s \in 1..Len(get_all_stratifications) :
                       get_all_stratifications[s] = LastMatching(population[i])
                /\ stratification_groups.value[i] =
                       stratification_group_name(LastMatching(population[i]))

\* C23 witness: under two dimensions a simulant that two categories of one
\* dimension match is cached with the key of its last matching categories.
C23_Witness ==
    /\ Cached
    /\ Len(stratification_levels) = 2
    /\ \E i \in CachedIndex :
           /\ MatchedEverywhere(population[i])
           /\ \E m \in Dimensions :
                  /\ Cardinality(MatchingCategories(m, population[i])) = 2
                  /\ LastMatching(population[i])[m].category = severe
           /\ stratification_groups.value[i] =
                  stratification_group_name(LastMatching(population[i]))


(***************************************************************************)
(* Claims about the refresh of the cache (checked under Spec)              *)
(***************************************************************************)
\* how often a call was made since the step began
Occurs(call) == Cardinality({i \in 1..Len(evaluated) : evaluated[i] = call})
\* the stratifier's listener of the step has run
Refreshed == ~(pending # <<>> /\ Head(pending) = "ResultsStratifier.on_timestep_prepare")
\* the calls of a step: none before the refresh, one each after it
CallsOfTheStep ==
    step >= 1 =>
        /\ Occurs("get_stratification_groups") = (IF Refreshed THEN 1 ELSE 0)
        /\ \A p \in 1..Len(pipelines) :
               Occurs(pipelines[p].key) = (IF Refreshed THEN 1 ELSE 0)

\* C24 -- The assignment is recomputed exactly once per simulation step, at
\* time_step__prepare, and every pipeline is evaluated exactly once for it;
\* between two step boundaries a call of group by an observer's listener or by
\* its metrics leaves the cached assignment and the registered dimensions as
\* they are.
C24_OncePerStep ==
    /\ []CallsOfTheStep
    /\ [][(reader' # reader \/ yielded' # yielded \/ on_time_step_prepare \/ metrics) =>
              UNCHANGED <<stratification_groups, stratification_levels, pipelines,
                          evaluated>>]_vars

\* C24 witness: in the second step, after the refresh and the observer's call
\* of group, the assignment was computed once with one call of each of two
\* pipelines.
C24_Witness ==
    /\ step = 2
    /\ pending = <<>>
    /\ phase = "running"
    /\ reader = "DisabilityObserver.update_metrics"
    /\ Len(pipelines) = 2
    /\ Occurs("get_stratification_groups") = 1
    /\ \A p \in 1..Len(pipelines) : Occurs(pipelines[p].key) = 1


(***************************************************************************)
(* Claims about the unstratified case and about late simulants (checked    *)
(* under Spec)                                                             *)
(***************************************************************************)
\* the whole state table, as the index an observer passes to group
WholePopulation == [i \in 1..Len(population) |-> i]
\* the cached assignment covers the state table
CacheCoversPopulation == Cached /\ Len(stratification_groups.value) = Len(population)
\* an observer calls group in this step of the machine
GroupIsCalled == on_time_step_prepare \/ metrics
\* names of measure columns
MeasureColumnNames == {<<"d">>, <<"y", "l", "l">>}

\* C25 -- With no stratification level defined, get_all_stratifications is a
\* list holding one empty tuple, its key is the empty string, every simulant is
\* cached with that key, group yields the whole population as one subgroup, and
\* update_labels leaves every measure column name as it is.
C25_Unstratified ==
    /\ [](stratification_levels = <<>> =>
              /\ get_all_stratifications = << <<>> >>
              /\ get_stratification_key(get_all_stratifications[1]) = <<>>
              /\ Cached => \A i \in CachedIndex : stratification_groups.value[i] = <<>>
              /\ \A k \in MeasureColumnNames :
                     update_labels(k, <<get_stratification_key(<<>>)>>) = k)
    /\ [][(stratification_levels = <<>> /\ CacheCoversPopulation /\ GroupIsCalled) =>
              /\ raised' = "none"
              /\ yielded' = << [labels |-> << <<>> >>, pop_in_group |-> WholePopulation] >>]_vars

\* C25 witness: no dimension is registered and the metrics are read for a
\* cached population of two, which comes back as one subgroup.
C25_Witness ==
    /\ stratification_levels = <<>>
    /\ CacheCoversPopulation
    /\ Len(population) = 2
    /\ reader = "MortalityObserver.metrics"
    /\ Len(yielded) = 1
    /\ yielded[1].pop_in_group = <<1, 2>>

\* C27 -- Every simulant of the population passed to group at a read of the
\* metrics is in a yielded subgroup: none is left out of all subgroups because
\* it was created after the cache was last refreshed.
C27_LateSimulantsAreGrouped ==
    [][(metrics /\ raised' = "none") =>
           \A i \in 1..Len(population) :
               (Cached /\ i > Len(stratification_groups.value)) =>
                   \E s \in 1..Len(yielded') :
                       \E j \in 1..Len(yielded'[s].pop_in_group) :
                           yielded'[s].pop_in_group[j] = i]_vars


(***************************************************************************)
(* Claims about the order of the long table (checked under SpecReshape)    *)
(***************************************************************************)
\* the canonical order of the columns, by the names the long table has
CanonicalOrder == <<"age", "sex", "year", "risk", "cause", "measure", "input_draw">>
\* the age groups in the order of str
SortedAgeGroups == <<"1_to_4", "early_neonatal", "late_neonatal", "post_neonatal">>
\* the place of a value in the order of its column
CanonicalRank(c, v) ==
    IF c = "age" THEN CHOOSE i \in 1..Len(SortedAgeGroups) : SortedAgeGroups[i] = v
    ELSE IF c = "sex" THEN CHOOSE i \in 1..Len(SortedStrings) : SortedStrings[i] = v
    ELSE IF c \in {"year", "input_draw"} THEN v
    ELSE 0
\* row1 comes before row2 in the lexicographic order of the columns cols
RECURSIVE CanonicalLess(_, _, _)
CanonicalLess(row1, row2, cols) ==
    IF cols = <<>> THEN FALSE
    ELSE LET c == Head(cols)
         IN  IF c \notin DOMAIN row1 THEN CanonicalLess(row1, row2, Tail(cols))
             ELSE \/ CanonicalRank(c, row1[c]) < CanonicalRank(c, row2[c])
                  \/ /\ CanonicalRank(c, row1[c]) = CanonicalRank(c, row2[c])
                     /\ CanonicalLess(row1, row2, Tail(cols))

\* C26 -- The long table get_measure_data returns for a measure is sorted by
\* the canonical column order, age group first, then sex, year, risk, cause,
\* measure and input draw, skipping the fields the measure does not have: no
\* row comes before its predecessor in that lexicographic order.
C26_CanonicalOrder ==
    Reshaped =>
        \A i \in 1..(Len(long.value) - 1) :
            ~CanonicalLess(long.value[i + 1], long.value[i], CanonicalOrder)

\* the same without the age group: the order the rows do have
C26_OrderWithoutAge ==
    Reshaped =>
        \A i \in 1..(Len(long.value) - 1) :
            ~CanonicalLess(long.value[i + 1], long.value[i], Tail(CanonicalOrder))


(***************************************************************************)
(* Claims about the keyspace and the seed column (checked under SpecFilter)*)
(***************************************************************************)
\* C28 -- Every row filter_out_incomplete returns has its draw, its seed and
\* its scenario inside the keyspace: rows of a scenario the keyspace does not
\* list are never retained.
C28_RetainedInsideKeyspace ==
    (stage = "filtered" /\ filtered.raised = "none") =>
        \A i \in 1..Len(filtered.value) :
            /\ filtered.value[i].input_draw \in SetOf(keyspace.value.input_draw)
            /\ filtered.value[i].random_seed \in SetOf(keyspace.value.random_seed)
            /\ filtered.value[i].scenario \in SetOf(keyspace.value.scenario)

\* C29 -- aggregate_over_seed takes random_seed as identity, not as a measure:
\* the aggregated table has no column that holds the sum of the seed numbers
\* of a (draw, scenario) group.
C29_NoSumOfSeeds ==
    stage = "aggregated" =>
        \A g \in 1..Len(aggregated) : "random_seed" \notin DOMAIN aggregated[g]

(***************************************************************************)
(* Claims about the columns requested from the state table (checked under  *)
(* Spec)                                                                   *)
(***************************************************************************)
\* C30 -- Registering a dimension whose source is a field F of the state table
\* makes F one of the columns the stratifier requests from the population
\* view, whatever the name of F.
C30_StateFieldIsRequested ==
    [][\A r \in RegistrationInputs :
           (setup_stratification(r) /\ ~r.is_pipeline) =>
               \E i \in 1..Len(columns_required') :
                   columns_required'[i] = r.source_name]_vars

====
